---- MODULE Spec2Model ----
(***************************************************************************)
(* Salati: the prayer-time computation of services/prayerTimes             *)
(* (getPrayerTimes, calculatePrayerTimes, getIslamicPrayerTimes and the    *)
(* solar formulas below them, getMockPrayerTimes), the NotificationService,*)
(* the start-up of App with the onboarding wizard, the 'salatiSettings'    *)
(* item written by SettingsScreen and ThemeContext, and the magnetometer   *)
(* listener of QiblaCompass.                                               *)
(*                                                                         *)
(* Number representation.  The source computes in IEEE doubles; the model  *)
(* computes in fixed point:                                                *)
(*   - angles are integers in millidegrees (1 degree = 1000),              *)
(*   - values of sin/cos and ratios of them are integers scaled by Scale,  *)
(*   - times of day and the equation of time are integers in seconds,      *)
(*   - a Julian date is the pair [jdn, frac] of the day number and the     *)
(*     signed part of a day in seconds.                                    *)
(* Math.sin, Math.asin, Math.acos and Math.atan2 are computed from a table *)
(* of sin at whole degrees with linear interpolation.                      *)
(***************************************************************************)
EXTENDS Integers, Sequences, FiniteSets, TLC

(***************************************************************************)
(* Fixed-point arithmetic                                                  *)
(***************************************************************************)
\* the scale of sin, cos and their ratios
Scale == 100 * 100

\* one degree, in millidegrees
Deg == 10 * 100

SecondsPerHour == 60 * 60

SecondsPerDay == 24 * SecondsPerHour

Abs(a) == IF a < 0 THEN -a ELSE a

\* a / b rounded to the nearest integer (b > 0), halves upwards
RoundDiv(a, b) == (2 * a + b) \div (2 * b)

\* the % of the source language: the remainder takes the sign of the dividend
JsMod(a, b) == IF a >= 0 THEN a % b ELSE -((-a) % b)

\* sin at 0, 1, ..., 90 degrees, scaled by Scale
SinTab ==
  << 0, 175, 349, 523, 698, 872, 1045, 1219, 1392, 1564,
     1736, 1908, 2079, 2250, 2419, 2588, 2756, 2924, 3090, 3256,
     3420, 3584, 3746, 3907, 4067, 4226, 4384, 4540, 4695, 4848,
     5000, 5150, 5299, 5446, 5592, 5736, 5878, 6018, 6157, 6293,
     6428, 6561, 6691, 6820, 6947, 7071, 7193, 7314, 7431, 7547,
     7660, 7771, 7880, 7986, 8090, 8192, 8290, 8387, 8480, 8572,
     8660, 8746, 8829, 8910, 8988, 9063, 9135, 9205, 9272, 9336,
     9397, 9455, 9511, 9563, 9613, 9659, 9703, 9744, 9781, 9816,
     9848, 9877, 9903, 9925, 9945, 9962, 9976, 9986, 9994, 9998,
     10000 >>

\* sin of an angle in 0 .. 90 degrees
SinQ(a) ==
  LET d == a \div Deg
      r == a % Deg
  IN  IF r = 0 THEN SinTab[d + 1]
      ELSE SinTab[d + 1] + RoundDiv((SinTab[d + 2] - SinTab[d + 1]) * r, Deg)

\* Math.sin of an angle in millidegrees
Sin(a) ==
  LET m == a % (360 * Deg)
  IN  IF m <= 90 * Deg THEN SinQ(m)
      ELSE IF m <= 180 * Deg THEN SinQ(180 * Deg - m)
      ELSE IF m <= 270 * Deg THEN -SinQ(m - 180 * Deg)
      ELSE -SinQ(360 * Deg - m)

\* Math.cos of an angle in millidegrees
Cos(a) == Sin(a + 90 * Deg)

\* Math.asin of v / Scale for 0 <= v <= Scale, in millidegrees
AsinPos(v) ==
  IF v >= Scale THEN 90 * Deg
  ELSE LET d == CHOOSE k \in 0..89 : SinTab[k + 1] <= v /\ v < SinTab[k + 2]
           lo == SinTab[d + 1]
           hi == SinTab[d + 2]
       IN  d * Deg + RoundDiv((v - lo) * Deg, hi - lo)

\* Math.asin of v / Scale, in millidegrees
Asin(v) == IF v >= 0 THEN AsinPos(v) ELSE -AsinPos(-v)

\* Math.acos of v / Scale, in millidegrees
Acos(v) == 90 * Deg - Asin(v)

\* tan at d degrees (0 <= d <= 45), scaled by Scale
TanTab(d) == (SinTab[d + 1] * Scale) \div SinTab[91 - d]

\* Math.atan of p / q for 0 <= p <= q, q > 0, in millidegrees
AtanUnit(p, q) ==
  LET t == RoundDiv(p * Scale, q)
  IN  IF t >= Scale THEN 45 * Deg
      ELSE LET d == CHOOSE k \in 0..44 : TanTab(k) <= t /\ t < TanTab(k + 1)
               lo == TanTab(d)
               hi == TanTab(d + 1)
           IN  d * Deg + RoundDiv((t - lo) * Deg, hi - lo)

\* Math.atan2(y, x) for y >= 0, x >= 0
AtanPos(y, x) ==
  IF y = 0 THEN 0
  ELSE IF y <= x THEN AtanUnit(y, x)
  ELSE 90 * Deg - AtanUnit(x, y)

\* Math.atan2(y, x), in millidegrees, in -180 .. 180 degrees
Atan2(y, x) ==
  IF y >= 0
  THEN IF x >= 0 THEN AtanPos(y, x) ELSE 180 * Deg - AtanPos(y, -x)
  ELSE IF x >= 0 THEN -AtanPos(-y, x) ELSE AtanPos(-y, -x) - 180 * Deg

(***************************************************************************)
(* Solar formulas (services/prayerTimes)                                   *)
(***************************************************************************)
\* A Date is [year, month (getMonth(), 0-based), day, hours, minutes,
\* seconds, tzOffset (getTimezoneOffset(), minutes west of UTC)].
MkDate(y, mo, d, h, mi, s, tz) ==
  [year |-> y, month |-> mo, day |-> d, hours |-> h, minutes |-> mi,
   seconds |-> s, tzOffset |-> tz]

\* getJulianDate with a fault: the leap day of the years divisible by 400 is
\* not counted (the term Math.floor(y / 400) is missing)
getJulianDateNo400(date) ==
  LET year == date.year
      month == date.month + 1
      day == date.day
      a == (14 - month) \div 12
      y == year - a
      m == month + 12 * a - 3
      jdn == day + ((153 * m + 2) \div 5) + 365 * y + (y \div 4) - (y \div 100)
               + 4 + 1721119
      timeSeconds == date.hours * SecondsPerHour + date.minutes * 60 + date.seconds
  IN  [jdn |-> jdn, frac |-> timeSeconds - SecondsPerDay \div 2]

\* getJulianDate: [jdn, frac] stands for jdn + frac / 86400, where frac is
\* timeFraction - 0.5 in seconds
getJulianDate(date) ==
  LET year == date.year
      month == date.month + 1
      day == date.day
      a == (14 - month) \div 12
      y == year - a
      m == month + 12 * a - 3
      jdn == day + ((153 * m + 2) \div 5) + 365 * y + (y \div 4) - (y \div 100)
               + (y \div 400) + 1721119
      timeSeconds == date.hours * SecondsPerHour + date.minutes * 60 + date.seconds
  IN  [jdn |-> jdn, frac |-> timeSeconds - SecondsPerDay \div 2]

\* (base + rate * n) % 360 in millidegrees, for the rate 0.985 + rateFrac / 10^7
\* degrees per day and n = julianDate - 2451545.0
MeanAngle(base, rateFrac, julianDate) ==
  LET nd == julianDate.jdn - 2451545
      fs == julianDate.frac
  IN  JsMod(base + nd * 985 + RoundDiv(nd * rateFrac, 10000)
              + RoundDiv(fs * 9856, 10 * SecondsPerDay),
            360 * Deg)

\* L = (280.460 + 0.9856474 * n) % 360
MeanLongitude(julianDate) == MeanAngle(280460, 6474, julianDate)

\* g = (357.528 + 0.9856003 * n) % 360
MeanAnomaly(julianDate) == MeanAngle(357528, 6003, julianDate)

\* lambda = L + 1.915 * sin(g) + 0.020 * sin(2g)
EclipticLongitude(julianDate) ==
  LET L == MeanLongitude(julianDate)
      g == MeanAnomaly(julianDate)
  IN  L + RoundDiv(1915 * Sin(g), Scale) + RoundDiv(20 * Sin(2 * g), Scale)

\* the obliquity of the ecliptic used by the source, 23.439 degrees
Obliquity == 23439

\* getSolarDeclination, in millidegrees
getSolarDeclination(julianDate) ==
  LET lambda == EclipticLongitude(julianDate)
  IN  Asin(RoundDiv(Sin(Obliquity) * Sin(lambda), Scale))

\* getEquationOfTime: 4 * (L - alpha) minutes, in seconds
getEquationOfTime(julianDate) ==
  LET L == MeanLongitude(julianDate)
      lambda == EclipticLongitude(julianDate)
      alpha == Atan2(RoundDiv(Cos(Obliquity) * Sin(lambda), Scale), Cos(lambda))
  IN  RoundDiv((L - alpha) * 6, 25)

\* getSolarNoon with a fault: the longitude correction is added (east and
\* west are exchanged)
getSolarNoonEastLate(longitude, equationOfTime, timezoneOffset) ==
  12 * SecondsPerHour + RoundDiv(longitude * 6, 25) - equationOfTime + timezoneOffset

\* getSolarNoon: 12 - longitude / 15 - equationOfTime / 60 + timezoneOffset,
\* in seconds (longitude in millidegrees, the others in seconds)
getSolarNoon(longitude, equationOfTime, timezoneOffset) ==
  12 * SecondsPerHour - RoundDiv(longitude * 6, 25) - equationOfTime + timezoneOffset

\* CosHourAngle with a fault: sin(lat) sin(dec) is added instead of subtracted
CosHourAngleSum(sinElevation, lat, declination) ==
  [num |-> sinElevation * Scale + Sin(lat) * Sin(declination),
   den |-> Cos(lat) * Cos(declination)]

\* cosHourAngle = (sin(elevation) - sin(lat) sin(dec)) / (cos(lat) cos(dec)),
\* kept as the fraction num / den (both scaled by Scale * Scale)
CosHourAngle(sinElevation, lat, declination) ==
  [num |-> sinElevation * Scale - Sin(lat) * Sin(declination),
   den |-> Cos(lat) * Cos(declination)]

\* Math.abs(cosHourAngle) > 1
HourAngleUndefined(c) ==
  IF c.den > 0 THEN Abs(c.num) > c.den
  ELSE IF c.den < 0 THEN Abs(c.num) > -c.den
  ELSE c.num # 0

\* Math.acos(cosHourAngle) * 180 / Math.PI / 15, in seconds
HourAngle(c) ==
  LET den == RoundDiv(Abs(c.den), Scale)
      sgn == IF c.den < 0 THEN -1 ELSE 1
      q == IF den = 0 THEN (IF c.num * sgn >= 0 THEN Scale ELSE -Scale)
           ELSE RoundDiv(c.num * sgn, den)
      v == IF q > Scale THEN Scale ELSE IF q < -Scale THEN -Scale ELSE q
  IN  RoundDiv(Acos(v) * 6, 25)

\* calculatePrayerTime with a fault: the two fallback times are exchanged
calculatePrayerTimeSwapped(lat, lng, declination, equationOfTime, angle, isSunrise, timezoneOffset) ==
  LET cosHourAngle == CosHourAngle(Sin(angle), lat, declination)
  IN  IF HourAngleUndefined(cosHourAngle)
      THEN (IF isSunrise THEN 18 * SecondsPerHour + timezoneOffset
                         ELSE 6 * SecondsPerHour + timezoneOffset)
      ELSE LET hourAngle == HourAngle(cosHourAngle)
               solarNoon == getSolarNoon(lng, equationOfTime, timezoneOffset)
           IN  IF isSunrise THEN solarNoon - hourAngle ELSE solarNoon + hourAngle

\* calculatePrayerTime, in seconds
calculatePrayerTime(lat, lng, declination, equationOfTime, angle, isSunrise, timezoneOffset) ==
  LET cosHourAngle == CosHourAngle(Sin(angle), lat, declination)
  IN  IF HourAngleUndefined(cosHourAngle)
      THEN (IF isSunrise THEN 6 * SecondsPerHour + timezoneOffset
                         ELSE 18 * SecondsPerHour + timezoneOffset)
      ELSE LET hourAngle == HourAngle(cosHourAngle)
               solarNoon == getSolarNoon(lng, equationOfTime, timezoneOffset)
           IN  IF isSunrise THEN solarNoon - hourAngle ELSE solarNoon + hourAngle

\* shadow length = object length (the Hanafi method would use 2)
shadowFactor == 1

\* sin of the Asr elevation atan(1 / (shadowFactor + tan(pi/2 - noonElevation))):
\* with x = 90 degrees - noonElevation, 1 / (f + tan x) = cos x / (f cos x + sin x)
SinAsrElevation(lat, declination) ==
  LET noonElevation ==
        Asin(RoundDiv(Sin(lat) * Sin(declination) + Cos(lat) * Cos(declination), Scale))
      x == 90 * Deg - noonElevation
      p == Cos(x)
      q == shadowFactor * Cos(x) + Sin(x)
      asrElevation == IF q >= 0 THEN Atan2(p, q) ELSE Atan2(-p, -q)
  IN  Sin(asrElevation)

\* getAsrTime, in seconds
getAsrTime(lat, lng, declination, equationOfTime, timezoneOffset) ==
  LET cosHourAngle == CosHourAngle(SinAsrElevation(lat, declination), lat, declination)
  IN  IF HourAngleUndefined(cosHourAngle)
      THEN 15 * SecondsPerHour + timezoneOffset
      ELSE getSolarNoon(lng, equationOfTime, timezoneOffset) + HourAngle(cosHourAngle)

\* while (time < 0) time += 24
RECURSIVE AddDays(_)
AddDays(time) == IF time < 0 THEN AddDays(time + SecondsPerDay) ELSE time

\* while (time >= 24) time -= 24
RECURSIVE SubDays(_)
SubDays(time) == IF time >= SecondsPerDay THEN SubDays(time - SecondsPerDay) ELSE time

Min(a, b) == IF a < b THEN a ELSE b

Max(a, b) == IF a > b THEN a ELSE b

\* timeToHourMinute with a fault: a rounded minute of 60 is clamped to 59
\* instead of being carried into the hour
timeToHourMinuteNoCarry(time0) ==
  LET time == SubDays(AddDays(time0))
      hour == time \div SecondsPerHour
      minute == RoundDiv(time - hour * SecondsPerHour, 60)
  IN  [hour |-> hour, minute |-> Max(0, Min(59, minute))]

\* timeToHourMinute with a fault: the carried hour is not reduced modulo 24
timeToHourMinuteNoWrap(time0) ==
  LET time == SubDays(AddDays(time0))
      hour == time \div SecondsPerHour
      minute == RoundDiv(time - hour * SecondsPerHour, 60)
  IN  IF minute >= 60
      THEN [hour |-> hour + 1, minute |-> 0]
      ELSE [hour |-> hour, minute |-> Max(0, Min(59, minute))]

\* timeToHourMinute: Math.round((time - hour) * 60) rounds halves upwards
timeToHourMinute(time0) ==
  LET time == SubDays(AddDays(time0))
      hour == time \div SecondsPerHour
      minute == RoundDiv(time - hour * SecondsPerHour, 60)
  IN  IF minute >= 60
      THEN [hour |-> (hour + 1) % 24, minute |-> 0]
      ELSE [hour |-> hour, minute |-> Max(0, Min(59, minute))]

fajrAngle == -18000

ishaAngle == -17000

maghribAngle == -833

PrayerIds == <<"fajr", "sunrise", "dhuhr", "asr", "maghrib", "isha">>

PrayerNames == <<"Fajr", "Sunrise", "Dhuhr", "Asr", "Maghrib", "Isha">>

\* -date.getTimezoneOffset() / 60, in seconds
TimezoneOffset(date) == -date.tzOffset * 60

\* the six raw times of getIslamicPrayerTimes (fajrTime .. ishaTime), in seconds
RawPrayerTimes(lat, lng, date) ==
  LET timezoneOffset == TimezoneOffset(date)
      julianDate == getJulianDate(date)
      declination == getSolarDeclination(julianDate)
      equationOfTime == getEquationOfTime(julianDate)
      fajrTime == calculatePrayerTime(lat, lng, declination, equationOfTime,
                                      fajrAngle, FALSE, timezoneOffset)
      sunriseTime == calculatePrayerTime(lat, lng, declination, equationOfTime,
                                         maghribAngle, TRUE, timezoneOffset)
      dhuhrTime == getSolarNoon(lng, equationOfTime, timezoneOffset)
      asrTime == getAsrTime(lat, lng, declination, equationOfTime, timezoneOffset)
      maghribTime == calculatePrayerTime(lat, lng, declination, equationOfTime,
                                         maghribAngle, FALSE, timezoneOffset)
      ishaTime == calculatePrayerTime(lat, lng, declination, equationOfTime,
                                      ishaAngle, FALSE, timezoneOffset)
  IN  <<fajrTime, sunriseTime, dhuhrTime, asrTime, maghribTime, ishaTime>>

\* the list getIslamicPrayerTimes returns, from its six raw times
HourMinuteList(rawTimes) ==
  [i \in 1..6 |->
     LET hm == timeToHourMinute(rawTimes[i])
     IN  [id |-> PrayerIds[i], name |-> PrayerNames[i],
          hour |-> hm.hour, minute |-> hm.minute]]

(***************************************************************************)
(* Passed / next flags and formatting (calculatePrayerTimes,               *)
(* getMockPrayerTimes)                                                     *)
(***************************************************************************)
Digits == <<"0", "1", "2", "3", "4", "5", "6", "7", "8", "9">>

\* Number.prototype.toString of an integer n >= 0, as a sequence of characters
RECURSIVE NumberToString(_)
NumberToString(n) ==
  IF n < 10 THEN <<Digits[n + 1]>>
  ELSE NumberToString(n \div 10) \o <<Digits[(n % 10) + 1]>>

\* String.prototype.padStart(2, '0')
PadStart2(str) == IF Len(str) < 2 THEN <<"0">> \o str ELSE str

\* FormatTime with a fault: noon is tagged AM (hour > 12 instead of hour >= 12)
FormatTimeNoonAM(hour, minute) ==
  LET hour12 == IF hour = 0 THEN 12 ELSE IF hour > 12 THEN hour - 12 ELSE hour
      ampm == IF hour > 12 THEN <<"P", "M">> ELSE <<"A", "M">>
  IN  NumberToString(hour12) \o <<":">> \o PadStart2(NumberToString(minute))
        \o <<" ">> \o ampm

\* `${hour12}:${minute.toString().padStart(2, '0')} ${ampm}`
FormatTime(hour, minute) ==
  LET hour12 == IF hour = 0 THEN 12 ELSE IF hour > 12 THEN hour - 12 ELSE hour
      ampm == IF hour >= 12 THEN <<"P", "M">> ELSE <<"A", "M">>
  IN  NumberToString(hour12) \o <<":">> \o PadStart2(NumberToString(minute))
        \o <<" ">> \o ampm

\* now.getHours() * 60 + now.getMinutes()
CurrentMinutes(date) == date.hours * 60 + date.minutes

\* times.map(prayer => prayer.hour * 60 + prayer.minute)
PrayerMinutes(list) == [i \in 1..Len(list) |-> list[i].hour * 60 + list[i].minute]

\* FindIndexAfter with a fault: an entry due at this very minute is found
FindIndexAtOrAfter(prayerMinutes, currentMinutes) ==
  LET hits == {i \in 1..Len(prayerMinutes) : prayerMinutes[i] >= currentMinutes}
  IN  IF hits = {} THEN -1
      ELSE (CHOOSE i \in hits : \A j \in hits : i <= j) - 1

\* prayerMinutes.findIndex(time => time > currentMinutes): 0-based, -1 if none
FindIndexAfter(prayerMinutes, currentMinutes) ==
  LET hits == {i \in 1..Len(prayerMinutes) : prayerMinutes[i] > currentMinutes}
  IN  IF hits = {} THEN -1
      ELSE (CHOOSE i \in hits : \A j \in hits : i <= j) - 1

\* NextPrayerIndex with a fault: the last later entry instead of the first
NextPrayerIndexLast(prayerMinutes, currentMinutes) ==
  LET hits == {i \in 1..Len(prayerMinutes) : prayerMinutes[i] > currentMinutes}
  IN  IF hits = {} THEN 0
      ELSE (CHOOSE i \in hits : \A j \in hits : i >= j) - 1

\* NextPrayerIndex with a fault: -1 is not wrapped to entry 0
NextPrayerIndexNoWrap(prayerMinutes, currentMinutes) ==
  FindIndexAfter(prayerMinutes, currentMinutes)

\* nextPrayerIndex of calculatePrayerTimes
NextPrayerIndex(prayerMinutes, currentMinutes) ==
  LET nextPrayerIndex == FindIndexAfter(prayerMinutes, currentMinutes)
  IN  IF nextPrayerIndex = -1 THEN 0 ELSE nextPrayerIndex

\* IsPassed with a fault: a prayer due at this very minute is not passed
IsPassedStrict(prayerTimeMinutes, currentMinutes) == prayerTimeMinutes < currentMinutes

\* isPassed of calculatePrayerTimes
IsPassed(prayerTimeMinutes, currentMinutes) == prayerTimeMinutes <= currentMinutes

\* calculatePrayerTimes, from `times` (the list getIslamicPrayerTimes returned)
\* and `clock` (the `now` it reads with new Date())
calculatePrayerTimes(list, clock) ==
  LET currentMinutes == CurrentMinutes(clock)
      prayerMinutes == PrayerMinutes(list)
      nextPrayerIndex == NextPrayerIndex(prayerMinutes, currentMinutes)
  IN  [index \in 1..Len(list) |->
         LET prayer == list[index]
             prayerTimeMinutes == prayer.hour * 60 + prayer.minute
         IN  [id |-> prayer.id,
              name |-> prayer.name,
              time |-> FormatTime(prayer.hour, prayer.minute),
              isNext |-> (index - 1 = nextPrayerIndex),
              isPassed |-> IsPassed(prayerTimeMinutes, currentMinutes)]]

\* the `prayers` table of getMockPrayerTimes
MockPrayers ==
  << [id |-> "fajr", name |-> "Fajr", hour |-> 5, minute |-> 30],
     [id |-> "sunrise", name |-> "Sunrise", hour |-> 6, minute |-> 55],
     [id |-> "dhuhr", name |-> "Dhuhr", hour |-> 12, minute |-> 25],
     [id |-> "asr", name |-> "Asr", hour |-> 15, minute |-> 40],
     [id |-> "maghrib", name |-> "Maghrib", hour |-> 18, minute |-> 15],
     [id |-> "isha", name |-> "Isha", hour |-> 19, minute |-> 35] >>

\* getMockPrayerTimes with a fault: an entry due at this very minute is not
\* passed
getMockPrayerTimesStrict(clock) ==
  LET currentMinutes == clock.hours * 60 + clock.minutes
      prayerMinutes == [i \in 1..6 |-> MockPrayers[i].hour * 60 + MockPrayers[i].minute]
      found == FindIndexAfter(prayerMinutes, currentMinutes)
      nextPrayerIndex == IF found = -1 THEN 0 ELSE found
  IN  [index \in 1..6 |->
         LET prayer == MockPrayers[index]
             prayerTimeMinutes == prayer.hour * 60 + prayer.minute
         IN  [id |-> prayer.id,
              name |-> prayer.name,
              time |-> FormatTime(prayer.hour, prayer.minute),
              isNext |-> (index - 1 = nextPrayerIndex),
              isPassed |-> (prayerTimeMinutes < currentMinutes)]]

\* getMockPrayerTimes(), run when the clock reads `clock`
getMockPrayerTimes(clock) ==
  LET currentMinutes == clock.hours * 60 + clock.minutes
      prayerMinutes == [i \in 1..6 |-> MockPrayers[i].hour * 60 + MockPrayers[i].minute]
      found == FindIndexAfter(prayerMinutes, currentMinutes)
      nextPrayerIndex == IF found = -1 THEN 0 ELSE found
  IN  [index \in 1..6 |->
         LET prayer == MockPrayers[index]
             prayerTimeMinutes == prayer.hour * 60 + prayer.minute
         IN  [id |-> prayer.id,
              name |-> prayer.name,
              time |-> FormatTime(prayer.hour, prayer.minute),
              isNext |-> (index - 1 = nextPrayerIndex),
              isPassed |-> (prayerTimeMinutes <= currentMinutes)]]

(***************************************************************************)
(* Parsing a formatted time (NotificationService.parseTimeString,          *)
(* getTimeUntilNextPrayer, getCurrentPrayerStatus)                         *)
(***************************************************************************)
IsDigit(c) == \E i \in 1..10 : Digits[i] = c

\* white space as \s and String.prototype.trim see it
IsSpace(c) == c \in {" ", "\t", "\n"}

\* parseInt of a sequence of decimal digits
RECURSIVE ParseInt(_)
ParseInt(str) ==
  IF str = <<>> THEN 0
  ELSE ParseInt(SubSeq(str, 1, Len(str) - 1)) * 10
         + ((CHOOSE i \in 1..10 : Digits[i] = str[Len(str)]) - 1)

\* String.prototype.trim
RECURSIVE Trim(_)
Trim(str) ==
  IF str = <<>> THEN str
  ELSE IF IsSpace(str[1]) THEN Trim(Tail(str))
  ELSE IF IsSpace(str[Len(str)]) THEN Trim(SubSeq(str, 1, Len(str) - 1))
  ELSE str

\* match[3].toUpperCase() of a text the pattern (AM|PM) with flag i accepts,
\* <<>> if it does not accept the text
PeriodOf(str) ==
  IF Len(str) # 2 \/ str[2] \notin {"M", "m"} THEN <<>>
  ELSE IF str[1] \in {"A", "a"} THEN <<"A", "M">>
  ELSE IF str[1] \in {"P", "p"} THEN <<"P", "M">>
  ELSE <<>>

\* str.match(/^(\d{1,2}):(\d{2})\s*(AM|PM)$/i) with k digits in group 1:
\* <<>> for null, else the three groups in a one-element sequence
MatchTimeWith(str, k) ==
  LET n == Len(str)
  IN  IF /\ n >= k + 5
         /\ \A i \in 1..k : IsDigit(str[i])
         /\ str[k + 1] = ":"
         /\ IsDigit(str[k + 2]) /\ IsDigit(str[k + 3])
         /\ \A i \in (k + 4)..(n - 2) : IsSpace(str[i])
         /\ PeriodOf(SubSeq(str, n - 1, n)) # <<>>
      THEN << [hours |-> SubSeq(str, 1, k),
               minutes |-> SubSeq(str, k + 2, k + 3),
               period |-> PeriodOf(SubSeq(str, n - 1, n))] >>
      ELSE <<>>

\* str.match(timeRegex): two hour digits are tried before one
MatchTime(str) ==
  IF MatchTimeWith(str, 2) # <<>> THEN MatchTimeWith(str, 2)
  ELSE MatchTimeWith(str, 1)

\* To24Hours with a fault: 12 PM becomes hour 24 (hours !== 12 is not tested)
To24HoursNoonAdds(hours, period) ==
  IF period = <<"P", "M">> THEN hours + 12
  ELSE IF period = <<"A", "M">> /\ hours = 12 THEN 0
  ELSE hours

\* the conversion to 24-hour format shared by the three parsers
To24Hours(hours, period) ==
  IF period = <<"P", "M">> /\ hours # 12 THEN hours + 12
  ELSE IF period = <<"A", "M">> /\ hours = 12 THEN 0
  ELSE hours

\* NotificationService.parseTimeString(timeString): <<>> for null
parseTimeString(timeString) ==
  LET match == MatchTime(Trim(timeString))
  IN  IF match = <<>> THEN <<>>
      ELSE LET hours == ParseInt(match[1].hours)
               minutes == ParseInt(match[1].minutes)
           IN  IF minutes < 0 \/ minutes > 59 \/ hours < 1 \/ hours > 12
               THEN <<>>
               ELSE << [hours |-> To24Hours(hours, match[1].period),
                        minutes |-> minutes] >>

\* the parser of getTimeUntilNextPrayer and getCurrentPrayerStatus: the same
\* pattern, no trim and no range test; <<>> when the text does not match
parsePrayerTime(time) ==
  LET match == MatchTime(time)
  IN  IF match = <<>> THEN <<>>
      ELSE << [hours |-> To24Hours(ParseInt(match[1].hours), match[1].period),
               minutes |-> ParseInt(match[1].minutes)] >>

(***************************************************************************)
(* Qibla bearing and distance (components/QiblaCompass)                    *)
(***************************************************************************)
\* a number of the source language that may be NaN
Num(v) == [isNaN |-> FALSE, value |-> v]

NaN == [isNaN |-> TRUE, value |-> 0]

\* KAABA_LOCATION, in millidegrees
KAABA_LOCATION == [latitude |-> 21423, longitude |-> 39826]

\* NormalizeBearing with a fault: 360 is not added before the remainder
NormalizeBearingNoShift(bearing) == JsMod(bearing, 360 * Deg)

\* bearing = (bearing + 360) % 360, in millidegrees
NormalizeBearing(bearing) == JsMod(bearing + 360 * Deg, 360 * Deg)

\* calculateQiblaDirection(userLat, userLon), in millidegrees
calculateQiblaDirection(userLat, userLon) ==
  LET lat1 == userLat
      lon1 == userLon
      lat2 == KAABA_LOCATION.latitude
      lon2 == KAABA_LOCATION.longitude
      dLon == lon2 - lon1
      y == RoundDiv(Sin(dLon) * Cos(lat2), Scale)
      x == RoundDiv(Cos(lat1) * Sin(lat2), Scale)
             - RoundDiv(RoundDiv(Sin(lat1) * Cos(lat2), Scale) * Cos(dLon), Scale)
      bearing == Atan2(y, x)
  IN  NormalizeBearing(bearing)

\* the heading the Magnetometer listener sets for a reading {x, y}
magneticHeading(x, y) == NormalizeBearing(Atan2(y, x))

\* the largest k in lo .. hi with k * k <= v
RECURSIVE SqrtBetween(_, _, _)
SqrtBetween(v, lo, hi) ==
  IF lo >= hi THEN lo
  ELSE LET mid == (lo + hi + 1) \div 2
       IN  IF mid * mid <= v THEN SqrtBetween(v, mid, hi)
           ELSE SqrtBetween(v, lo, mid - 1)

\* Math.sqrt of v / Scale, scaled by Scale: NaN below zero
Sqrt(v) == IF v < 0 THEN NaN ELSE Num(SqrtBetween(v * Scale, 0, 2 * Scale))

\* R of calculateDistance, in km
EarthRadius == 6371

\* the haversine term `a` of calculateDistance, scaled by Scale; every
\* product is rounded, as the products of the source are
HaversineA(lat1, lon1, lat2, lon2) ==
  LET dLat == lat2 - lat1
      dLon == lon2 - lon1
      sinLat == Sin(RoundDiv(dLat, 2))
      sinLon == Sin(RoundDiv(dLon, 2))
  IN  RoundDiv(sinLat * sinLat, Scale)
        + RoundDiv(RoundDiv(Cos(lat1) * Cos(lat2), Scale)
                     * RoundDiv(sinLon * sinLon, Scale), Scale)

\* calculateDistance(lat1, lon1, lat2, lon2), in km: c is kept in
\* milliradians (pi as 355 / 113); Math.atan2 of a NaN and R * NaN are NaN
calculateDistance(lat1, lon1, lat2, lon2) ==
  LET a == HaversineA(lat1, lon1, lat2, lon2)
      sqrtA == Sqrt(a)
      sqrt1A == Sqrt(Scale - a)
  IN  IF sqrtA.isNaN \/ sqrt1A.isNaN THEN NaN
      ELSE LET c == RoundDiv(2 * Atan2(sqrtA.value, sqrt1A.value) * 355, 113 * 180)
           IN  Num(RoundDiv(EarthRadius * c, 10 * 100))

(***************************************************************************)
(* geocodeLocation (utils/prayerTimes)                                     *)
(***************************************************************************)
UpperCase == <<"A", "B", "C", "D", "E", "F", "G", "H", "I", "J", "K", "L", "M",
     "N", "O", "P", "Q", "R", "S", "T", "U", "V", "W", "X", "Y", "Z">>

LowerCase == <<"a", "b", "c", "d", "e", "f", "g", "h", "i", "j", "k", "l", "m",
     "n", "o", "p", "q", "r", "s", "t", "u", "v", "w", "x", "y", "z">>

\* String.prototype.toLowerCase, for the letters A to Z
ToLowerCase(str) ==
  [i \in 1..Len(str) |->
     IF \E k \in 1..26 : UpperCase[k] = str[i]
     THEN LowerCase[CHOOSE k \in 1..26 : UpperCase[k] = str[i]]
     ELSE str[i]]

\* String.prototype.includes
Includes(str, searchString) ==
  \E i \in 0..(Len(str) - Len(searchString)) :
    SubSeq(str, i + 1, i + Len(searchString)) = searchString

\* Object.entries(mockCoordinates), in millidegrees
MockCoordinates ==
  << [name |-> <<"L", "o", "n", "d", "o", "n">>,
      latitude |-> 51507, longitude |-> -128],
     [name |-> <<"N", "e", "w", " ", "Y", "o", "r", "k">>,
      latitude |-> 40713, longitude |-> -74006],
     [name |-> <<"D", "u", "b", "a", "i">>,
      latitude |-> 25205, longitude |-> 55271],
     [name |-> <<"C", "a", "i", "r", "o">>,
      latitude |-> 30044, longitude |-> 31236],
     [name |-> <<"I", "s", "t", "a", "n", "b", "u", "l">>,
      latitude |-> 41008, longitude |-> 28978],
     [name |-> <<"M", "e", "c", "c", "a">>,
      latitude |-> 21423, longitude |-> 39826],
     [name |-> <<"M", "e", "d", "i", "n", "a">>,
      latitude |-> 24525, longitude |-> 39569] >>

\* the test of the lookup loop of geocodeLocation for a table entry
CityMatches(name, city) ==
  LET lowerCity == ToLowerCase(city)
  IN  Includes(ToLowerCase(name), lowerCity) \/ Includes(lowerCity, ToLowerCase(name))

\* 0-based index of the first table entry the city matches, -1 if none
FirstMatch(city) ==
  LET hits == {i \in 1..Len(MockCoordinates) : CityMatches(MockCoordinates[i].name, city)}
  IN  IF hits = {} THEN -1
      ELSE (CHOOSE i \in hits : \A j \in hits : i <= j) - 1

\* geocodeLocation(city): what the promise settles with; nothing in the try
\* block throws for a string, so the catch block is never entered
geocodeLocation(city) ==
  LET found == FirstMatch(city)
  IN  IF found # -1
      THEN [status |-> "resolved",
            latitude |-> MockCoordinates[found + 1].latitude,
            longitude |-> MockCoordinates[found + 1].longitude,
            city |-> city]
      ELSE [status |-> "resolved", latitude |-> 0, longitude |-> 0, city |-> city]

(***************************************************************************)
(* getPrayerTimes as a state machine                                       *)
(***************************************************************************)
VARIABLES
  pc,        \* where the getPrayerTimes call stands
  now,       \* the device clock: what `new Date()` returns
  location,  \* the `location` of getPrayerTimes: <<>> (undefined) or <<loc>>
  date,      \* the `date` of getPrayerTimes: <<>> before the call, or <<d>>
  rawTimes,  \* fajrTime .. ishaTime of getIslamicPrayerTimes, in seconds
  times,     \* the hour/minute list the flags are computed from
  prayers,   \* the PrayerTime[] the call resolves with
  fn,        \* the helper applied on its own ("none" when none is)
  arg,       \* its argument
  result,    \* what it returned
  settings,    \* NotificationService.settings
  schedPc,     \* where scheduleAllPrayerNotifications stands
  schedNow,    \* its `now`: <<>> before it is read, or <<d>>
  prayerIndex, \* the entry of `prayers` its loop is at (1-based)
  prayerTime,  \* its `prayerTime`, in seconds since midnight of today
  scheduled,   \* the notifications registered with the system
  waits        \* clock readings that passed during the run

VARIABLES
  appState,          \* App: 'loading' | 'welcome' | 'onboarding' | 'main'
  launches,          \* how many times the app was started again
  welcomePending,    \* handleWelcomeDone calls awaiting their setItem
  onCompleteCalled,  \* onComplete() of the OnboardingScreen was invoked
  hasSeenWelcome,    \* storage: the 'hasSeenWelcome' item is set
  salatiOnboarding,  \* storage: 'salatiOnboarding', <<>> or <<record>>
  salatiSettings,    \* storage: 'salatiSettings', <<>> or <<record>>
  currentStep,       \* OnboardingScreen state: currentStep
  loading,           \* OnboardingScreen state: loading
  onboardingData,    \* OnboardingScreen state: onboardingData
  view,              \* the state as of the last render: what handlers close over
  presses,           \* events handled since the last render
  completePc,        \* where handleComplete stands
  completeData,      \* the onboardingData handleComplete closed over
  locatePc,          \* the handleLocationAuto / handleLocationManual in flight
  locateCity,        \* the citySearch handleLocationManual closed over
  eventsPerRender    \* events the OnboardingScreen takes on one render

VARIABLES
  runs,            \* the calls of the NotificationService in flight together
  isDarkMode,      \* ThemeProvider state: isDarkMode
  screenSettings,  \* SettingsScreen state: the settings saveSettings writes
  togglePc,        \* where toggleDarkMode stands
  toggleValue,     \* the newDarkModeSetting of the toggleDarkMode in flight
  toggleRead,      \* the item toggleDarkMode read: <<>> or <<record>>
  savePc,          \* where saveSettings stands
  saveValues,      \* the state saveSettings closed over
  saveRead,        \* the item saveSettings read: <<>> or <<record>>
  mounted,         \* QiblaCompass is mounted
  listeners,       \* the listeners the Magnetometer has subscribed
  subscription,    \* magnetometerSubscription.current: <<>> or <<listener>>
  setups,          \* where each setupQibla call stands
  added,           \* Magnetometer.addListener calls so far
  qibla            \* qiblaDirection and distance: <<>> before they are set

concVars == <<runs>>

themeVars ==
  <<isDarkMode, screenSettings, togglePc, toggleValue, toggleRead, savePc,
    saveValues, saveRead>>

compassVars == <<mounted, listeners, subscription, setups, added, qibla>>

appVars ==
  <<appState, launches, welcomePending, onCompleteCalled, hasSeenWelcome,
    salatiOnboarding, salatiSettings>>

wizardVars ==
  <<currentStep, loading, onboardingData, view, presses, completePc,
    completeData, locatePc, locateCity>>

uiVars ==
  <<appVars, wizardVars, eventsPerRender, concVars, themeVars, compassVars>>

callVars == <<pc, now, location, date, rawTimes, times, prayers>>

fnVars == <<fn, arg, result>>

notifVars == <<settings, schedPc, schedNow, prayerIndex, prayerTime, scheduled, waits>>

vars == <<callVars, fnVars, notifVars, uiVars>>

\* minutes between two clock readings of the grid
ClockStep == 120

\* the longest time, in clock readings, that passes in one step
MaxWait == 2

\* readings at which a fallback time (6:00, 18:00) or a mock time is due
BoundaryMinutes == {5 * 60 + 30, 6 * 60, 12 * 60 + 25, 18 * 60, 19 * 60 + 35}

ClockMinutes ==
  {k * ClockStep : k \in 0..((24 * 60 - 1) \div ClockStep)} \cup BoundaryMinutes

\* [year, month (0-based), day]: the June and December solstices and a leap day
ClockDays == {<<2025, 5, 21>>, <<2025, 11, 21>>, <<2024, 1, 29>>}

\* getTimezoneOffset() of the device: UTC, UTC+3, UTC-5
TzOffsets == {0, -180, 300}

Clock ==
  {MkDate(d[1], d[2], d[3], m \div 60, m % 60, 0, tz) :
     d \in ClockDays, m \in ClockMinutes, tz \in TzOffsets}

\* an explicit `date` argument: noon of the March equinox, UTC
ExplicitDates == {MkDate(2025, 2, 20, 12, 0, 0, 0)}

MkLocation(lat, lng) == [latitude |-> lat, longitude |-> lng]

\* Mecca, London, Longyearbyen (78.2 N), an ice camp at 88 N, the Gulf of
\* Guinea, Sydney
Locations ==
  {MkLocation(21423, 39826), MkLocation(51507, -128), MkLocation(78223, 15627),
   MkLocation(88000, 0), MkLocation(0, 0), MkLocation(-33869, 151209)}

\* what Location.getCurrentPositionAsync may resolve with
DevicePositions == {MkLocation(51507, -128), MkLocation(40713, -74006)}

\* the settings a NotificationService is constructed with
DefaultSettings ==
  [notificationsEnabled |-> TRUE, adhanEnabled |-> TRUE, reminderMinutes |-> 15]

\* scheduleAllPrayerNotifications is not running and has no locals
NotifLocals ==
  /\ schedNow = <<>>
  /\ prayerIndex = 0
  /\ prayerTime = 0
  /\ waits = 0

\* a NotificationService that has not scheduled anything
NotifIdle ==
  /\ settings = DefaultSettings
  /\ schedPc = "idle"
  /\ scheduled = {}
  /\ NotifLocals

\* useState<OnboardingData>({...}): the fields the wizard's steps read
InitialOnboardingData ==
  [userName |-> <<>>, location |-> <<>>, notificationsEnabled |-> TRUE]

\* what a render of the OnboardingScreen shows and its handlers close over
Rendered == [currentStep |-> currentStep, loading |-> loading,
             onboardingData |-> onboardingData]

\* an OnboardingScreen as it is mounted, with no handler in flight
WizardInitial ==
  /\ currentStep = 0
  /\ loading = FALSE
  /\ onboardingData = InitialOnboardingData
  /\ view = [currentStep |-> 0, loading |-> FALSE,
             onboardingData |-> InitialOnboardingData]
  /\ presses = 0
  /\ completePc = "idle"
  /\ completeData = InitialOnboardingData
  /\ locatePc = "idle"
  /\ locateCity = <<>>

\* the app as it is first started, with nothing in storage
AppIdle ==
  /\ appState = "loading"
  /\ launches = 0
  /\ welcomePending = 0
  /\ onCompleteCalled = FALSE
  /\ hasSeenWelcome = FALSE
  /\ salatiOnboarding = <<>>
  /\ salatiSettings = <<>>

\* calls of the NotificationService that may be in flight at the same time
MaxRuns == 2

Runs == 1..MaxRuns

\* a call of the NotificationService that is not in flight
IdleRun == [pc |-> "idle", prayerIndex |-> 0, prayerTime |-> 0]

\* no call of the NotificationService is in flight
ConcIdle == runs = [r \in Runs |-> IdleRun]

\* useState of the SettingsScreen, for the settings the model follows
DefaultScreenSettings == [language |-> "English", showDegrees |-> TRUE]

\* the ThemeProvider and the SettingsScreen as constructed
ThemeIdle ==
  /\ isDarkMode = FALSE
  /\ screenSettings = DefaultScreenSettings
  /\ togglePc = "idle"
  /\ toggleValue = FALSE
  /\ toggleRead = <<>>
  /\ savePc = "idle"
  /\ saveValues = DefaultScreenSettings
  /\ saveRead = <<>>

\* setupQibla calls that may be in flight at the same time
MaxSetups == 2

Setups == 1..MaxSetups

\* no QiblaCompass is mounted
CompassIdle ==
  /\ mounted = FALSE
  /\ listeners = {}
  /\ subscription = <<>>
  /\ setups = [s \in Setups |-> "idle"]
  /\ added = 0
  /\ qibla = <<>>

\* the screens outside the three calculations
UiIdle ==
  /\ AppIdle
  /\ WizardInitial
  /\ eventsPerRender = 1
  /\ ConcIdle
  /\ ThemeIdle
  /\ CompassIdle

\* no helper is applied on its own
FnIdle ==
  /\ fn = "none"
  /\ arg = 0
  /\ result = 0

Init ==
  /\ pc = "idle"
  /\ now \in Clock
  /\ location = <<>>
  /\ date = <<>>
  /\ rawTimes = <<>>
  /\ times = <<>>
  /\ prayers = <<>>
  /\ FnIdle
  /\ UiIdle
  /\ NotifIdle

\* the readings of the same day and zone that follow `clock`, at most MaxWait on
LaterReadings(clock) ==
  {c \in Clock :
     /\ c.year = clock.year /\ c.month = clock.month /\ c.day = clock.day
     /\ c.tzOffset = clock.tzOffset
     /\ CurrentMinutes(c) > CurrentMinutes(clock)
     /\ Cardinality({m \in ClockMinutes :
                       CurrentMinutes(clock) < m /\ m <= CurrentMinutes(c)}) <= MaxWait}

\* time passes between calls and while the position request is awaited
Tick ==
  /\ pc \in {"idle", "position"}
  /\ \E c \in LaterReadings(now) : now' = c
  /\ UNCHANGED <<pc, location, date, rawTimes, times, prayers>>
  /\ UNCHANGED <<fnVars, notifVars, uiVars>>

\* getPrayerTimes(location, date): `date` defaults to new Date()
Call ==
  /\ pc = "idle"
  /\ \E loc \in {<<>>} \cup {<<l>> : l \in Locations},
        d \in {now} \cup ExplicitDates :
       /\ location' = loc
       /\ date' = <<d>>
       /\ pc' = IF loc = <<>> THEN "permission" ELSE "calculate"
  /\ UNCHANGED <<now, rawTimes, times, prayers>>
  /\ UNCHANGED <<fnVars, notifVars, uiVars>>

\* await Location.requestForegroundPermissionsAsync(); not granted throws
RequestPermission ==
  /\ pc = "permission"
  /\ \E status \in {"granted", "denied"} :
       pc' = IF status # "granted" THEN "catch" ELSE "position"
  /\ UNCHANGED <<now, location, date, rawTimes, times, prayers>>
  /\ UNCHANGED <<fnVars, notifVars, uiVars>>

\* await Location.getCurrentPositionAsync(...) resolves
GetCurrentPosition ==
  /\ pc = "position"
  /\ \E coords \in DevicePositions :
       location' = <<MkLocation(coords.latitude, coords.longitude)>>
  /\ pc' = "calculate"
  /\ UNCHANGED <<now, date, rawTimes, times, prayers>>
  /\ UNCHANGED <<fnVars, notifVars, uiVars>>

\* await Location.getCurrentPositionAsync(...) rejects
PositionFails ==
  /\ pc = "position"
  /\ pc' = "catch"
  /\ UNCHANGED <<now, location, date, rawTimes, times, prayers>>
  /\ UNCHANGED <<fnVars, notifVars, uiVars>>

\* return calculatePrayerTimes(location.latitude, location.longitude, date):
\* getIslamicPrayerTimes computes the raw times and the hour/minute list, and
\* calculatePrayerTimes reads the clock and flags the list
Calculate ==
  /\ pc = "calculate"
  /\ LET lat == location[1].latitude
         lng == location[1].longitude
     IN  /\ rawTimes' = RawPrayerTimes(lat, lng, date[1])
         /\ times' = HourMinuteList(rawTimes')
         /\ prayers' = calculatePrayerTimes(times', now)
  /\ pc' = "done"
  /\ UNCHANGED <<now, location, date>>
  /\ UNCHANGED <<fnVars, notifVars, uiVars>>

\* catch (error) { return getMockPrayerTimes() }
Fallback ==
  /\ pc = "catch"
  /\ times' = MockPrayers
  /\ prayers' = getMockPrayerTimes(now)
  /\ pc' = "done"
  /\ UNCHANGED <<now, location, date, rawTimes>>
  /\ UNCHANGED <<fnVars, notifVars, uiVars>>

\* the call resolves and the caller takes the list
Return ==
  /\ pc = "done"
  /\ pc' = "idle"
  /\ now' = now
  /\ location' = <<>>
  /\ date' = <<>>
  /\ rawTimes' = <<>>
  /\ times' = <<>>
  /\ prayers' = <<>>
  /\ UNCHANGED <<fnVars, notifVars, uiVars>>

Next ==
  \/ Tick
  \/ Call
  \/ RequestPermission
  \/ GetCurrentPosition
  \/ PositionFails
  \/ Calculate
  \/ Fallback
  \/ Return

Spec == Init /\ [][Next]_vars

(***************************************************************************)
(* The helpers applied on their own, to every argument of a bounded range  *)
(***************************************************************************)
\* raw times range over -MaxRawHours .. MaxRawHours hours
MaxRawHours == 30

\* raw times in seconds: around the minute and half-minute boundaries of
\* the first and the last minutes and the half hour of every hour
RawTimes ==
  {h * SecondsPerHour + m * 60 + sec :
     h \in (-MaxRawHours)..MaxRawHours, m \in {0, 1, 29, 30, 58, 59},
     sec \in {0, 29, 30, 59}}

FnInit ==
  /\ pc = "idle"
  /\ now = MkDate(2025, 5, 21, 12, 0, 0, 0)
  /\ location = <<>>
  /\ date = <<>>
  /\ rawTimes = <<>>
  /\ times = <<>>
  /\ prayers = <<>>
  /\ FnIdle
  /\ UiIdle
  /\ NotifIdle

\* timeToHourMinute(time)
ApplyTimeToHourMinute ==
  /\ fn = "none"
  /\ \E time \in RawTimes :
       /\ arg' = time
       /\ result' = timeToHourMinute(time)
  /\ fn' = "timeToHourMinute"
  /\ UNCHANGED <<callVars, notifVars, uiVars>>

\* the formatting of calculatePrayerTimes, for an hour and a minute
ApplyFormatTime ==
  /\ fn = "none"
  /\ \E hour \in 0..23, minute \in 0..59 :
       /\ arg' = [hour |-> hour, minute |-> minute]
       /\ result' = FormatTime(hour, minute)
  /\ fn' = "formatTime"
  /\ UNCHANGED <<callVars, notifVars, uiVars>>

\* parseTimeString(prayer.time) for the time text of a list entry
ApplyParseTimeString ==
  /\ fn = "none"
  /\ \E hour \in 0..23, minute \in 0..59 :
       LET time == FormatTime(hour, minute)
       IN  /\ arg' = [hour |-> hour, minute |-> minute, time |-> time]
           /\ result' = parseTimeString(time)
  /\ fn' = "parseTimeString"
  /\ UNCHANGED <<callVars, notifVars, uiVars>>

\* the parsing of getTimeUntilNextPrayer and getCurrentPrayerStatus for the
\* time text of a list entry
ApplyParsePrayerTime ==
  /\ fn = "none"
  /\ \E hour \in 0..23, minute \in 0..59 :
       LET time == FormatTime(hour, minute)
       IN  /\ arg' = [hour |-> hour, minute |-> minute, time |-> time]
           /\ result' = parsePrayerTime(time)
  /\ fn' = "parsePrayerTime"
  /\ UNCHANGED <<callVars, notifVars, uiVars>>

\* the Gregorian calendar, by its rules: the dates getJulianDate is given
IsLeapYear(y) == (y % 4 = 0 /\ y % 100 # 0) \/ y % 400 = 0

DaysInYear(y) == IF IsLeapYear(y) THEN 366 ELSE 365

\* days of month mo (0-based, as Date.getMonth counts) of year y
DaysInMonth(y, mo) ==
  IF mo = 1 THEN (IF IsLeapYear(y) THEN 29 ELSE 28)
  ELSE IF mo \in {3, 5, 8, 10} THEN 30
  ELSE 31

\* the years of the dates: common and leap years, a year divisible by 400 and
\* its neighbours, and two century years that are not leap years
JulianYears == {1900, 1999, 2000, 2001, 2024, 2025, 2100}

\* noon of every day of these years, in the device's time zone
NoonDates ==
  UNION { UNION { { MkDate(y, mo, d, 12, 0, 0, 0) : d \in 1..DaysInMonth(y, mo) } :
                  mo \in 0..11 } : y \in JulianYears }

\* getJulianDate(date)
ApplyGetJulianDate ==
  /\ fn = "none"
  /\ \E d \in NoonDates :
       /\ arg' = d
       /\ result' = getJulianDate(d)
  /\ fn' = "getJulianDate"
  /\ UNCHANGED <<callVars, notifVars, uiVars>>

\* coordinates in millidegrees: the poles, places on both sides of the
\* equator and of the meridian of the Kaaba, the Kaaba and its antipode
QiblaLatitudes == {-90000, -21423, -8000, 0, 8000, 21423, 90000}

QiblaLongitudes == {-180000, -140174, -90000, 0, 39826, 180000}

\* the components x and y of a magnetometer reading range over
\* -MaxField .. MaxField
MaxField == 3

\* calculateQiblaDirection(latitude, longitude) of setupQibla
ApplyCalculateQiblaDirection ==
  /\ fn = "none"
  /\ \E lat \in QiblaLatitudes, lon \in QiblaLongitudes :
       /\ arg' = [latitude |-> lat, longitude |-> lon]
       /\ result' = calculateQiblaDirection(lat, lon)
  /\ fn' = "calculateQiblaDirection"
  /\ UNCHANGED <<callVars, notifVars, uiVars>>

\* the Magnetometer listener of startMagnetometer, for a reading {x, y}
ApplyMagneticHeading ==
  /\ fn = "none"
  /\ \E x \in (-MaxField)..MaxField, y \in (-MaxField)..MaxField :
       /\ arg' = [x |-> x, y |-> y]
       /\ result' = magneticHeading(x, y)
  /\ fn' = "magneticHeading"
  /\ UNCHANGED <<callVars, notifVars, uiVars>>

\* calculateDistance(lat1, lon1, lat2, lon2)
ApplyCalculateDistance ==
  /\ fn = "none"
  /\ \E lat1 \in QiblaLatitudes, lon1 \in QiblaLongitudes,
        lat2 \in QiblaLatitudes, lon2 \in QiblaLongitudes :
       /\ arg' = [lat1 |-> lat1, lon1 |-> lon1, lat2 |-> lat2, lon2 |-> lon2]
       /\ result' = calculateDistance(lat1, lon1, lat2, lon2)
  /\ fn' = "calculateDistance"
  /\ UNCHANGED <<callVars, notifVars, uiVars>>

\* noon of every day of 2025
DaysOfYear == {d \in NoonDates : d.year = 2025}

\* London: 51.5074 N, 0.1278 W
London == MkLocation(51507, -128)

\* calculatePrayerTime for Fajr and for Isha as getIslamicPrayerTimes calls
\* it, at London on a day of the year
ApplyCalculatePrayerTime ==
  /\ fn = "none"
  /\ \E d \in DaysOfYear, angle \in {fajrAngle, ishaAngle} :
       LET julianDate == getJulianDate(d)
           declination == getSolarDeclination(julianDate)
           equationOfTime == getEquationOfTime(julianDate)
           timezoneOffset == TimezoneOffset(d)
       IN  /\ arg' = [lat |-> London.latitude, lng |-> London.longitude,
                      declination |-> declination,
                      equationOfTime |-> equationOfTime, angle |-> angle,
                      isSunrise |-> FALSE, timezoneOffset |-> timezoneOffset,
                      date |-> d]
           /\ result' = calculatePrayerTime(London.latitude, London.longitude,
                          declination, equationOfTime, angle, FALSE,
                          timezoneOffset)
  /\ fn' = "calculatePrayerTime"
  /\ UNCHANGED <<callVars, notifVars, uiVars>>

\* the city names typed on the location step of the onboarding
CityNames ==
  { <<"L", "o", "n", "d", "o", "n">>,
    <<"m", "e", "c", "c", "a">>,
    <<"M", "E", "D", "I", "N", "A">>,
    <<"N", "e", "w", " ", "Y", "o", "r", "k", " ", "C", "i", "t", "y">>,
    <<"D", "u", "b">>,
    <<"a">>,
    <<"P", "a", "r", "i", "s">>,
    <<"A", "t", "l", "a", "n", "t", "i", "s">>,
    <<"K", "u", "a", "l", "a", " ", "L", "u", "m", "p", "u", "r">> }

\* geocodeLocation(citySearch) of handleLocationManual
ApplyGeocodeLocation ==
  /\ fn = "none"
  /\ \E city \in CityNames :
       /\ arg' = city
       /\ result' = geocodeLocation(city)
  /\ fn' = "geocodeLocation"
  /\ UNCHANGED <<callVars, notifVars, uiVars>>

\* the helper has returned
FnReturn ==
  /\ fn # "none"
  /\ fn' = "none"
  /\ arg' = 0
  /\ result' = 0
  /\ UNCHANGED <<callVars, notifVars, uiVars>>

FnNext ==
  \/ ApplyTimeToHourMinute
  \/ ApplyFormatTime
  \/ ApplyParseTimeString
  \/ ApplyParsePrayerTime
  \/ ApplyGetJulianDate
  \/ ApplyCalculateQiblaDirection
  \/ ApplyMagneticHeading
  \/ ApplyCalculateDistance
  \/ ApplyCalculatePrayerTime
  \/ ApplyGeocodeLocation
  \/ FnReturn

FnSpec == FnInit /\ [][FnNext]_vars

(***************************************************************************)
(* NotificationService.scheduleAllPrayerNotifications as a state machine   *)
(***************************************************************************)
\* the longest time, in clock readings passed, that one run is followed for
MaxRunWaits == 1

\* the clock when a run starts: the readings of one day in one zone
NotifClock ==
  {c \in Clock : c.year = 2025 /\ c.month = 5 /\ c.day = 21 /\ c.tzOffset = -180}

\* the settings of the service: the defaults, reminders off or 15 minutes
\* ahead, the adhan on or off, and notifications switched off
NotifSettings ==
  {[notificationsEnabled |-> TRUE, adhanEnabled |-> a, reminderMinutes |-> r] :
     a \in BOOLEAN, r \in {0, 15}}
    \cup {[notificationsEnabled |-> FALSE, adhanEnabled |-> TRUE, reminderMinutes |-> 15]}

\* the `location` argument: undefined, Mecca, Longyearbyen
NotifLocations == {<<>>, <<MkLocation(21423, 39826)>>, <<MkLocation(78223, 15627)>>}

\* getTime() of a clock reading, in seconds since midnight of its day
ClockSeconds(d) == d.hours * SecondsPerHour + d.minutes * 60 + d.seconds

\* the locations getPrayerTimes(loc) may calculate for: loc, or the device
\* position if loc is undefined
CalculatedFor(loc) == IF loc = <<>> THEN DevicePositions ELSE {loc[1]}

\* TriggerInFuture with a fault: the trigger is not compared with the clock
TriggerNotTested(trigger, clockSeconds) == TRUE

\* scheduleNotification goes on to register: not (trigger <= new Date())
TriggerInFuture(trigger, clockSeconds) == ~(trigger <= clockSeconds)

\* scheduleNotification({trigger, data: {prayerName, type}}) when the clock
\* reads `clock`: the notifications registered afterwards; `at` records the
\* reading at which the notification was registered
scheduleNotification(registered, prayerName, type, trigger, clock) ==
  IF TriggerInFuture(trigger, ClockSeconds(clock))
  THEN registered \cup {[prayerName |-> prayerName, type |-> type,
                         trigger |-> trigger, at |-> ClockSeconds(clock)]}
  ELSE registered

NotifInit ==
  /\ pc = "idle"
  /\ now \in NotifClock
  /\ location = <<>>
  /\ date = <<>>
  /\ rawTimes = <<>>
  /\ times = <<>>
  /\ prayers = <<>>
  /\ FnIdle
  /\ UiIdle
  /\ settings \in NotifSettings
  /\ schedPc = "idle"
  /\ scheduled = {}
  /\ NotifLocals

\* scheduleAllPrayerNotifications(location) is called and awaits
\* Notifications.cancelAllScheduledNotificationsAsync()
ScheduleAll ==
  /\ schedPc = "idle"
  /\ \E loc \in NotifLocations : location' = loc
  /\ schedPc' = "cancel"
  /\ UNCHANGED <<pc, now, date, rawTimes, times, prayers>>
  /\ UNCHANGED <<settings, schedNow, prayerIndex, prayerTime, scheduled, waits>>
  /\ UNCHANGED <<fnVars, uiVars>>

\* the scheduled notifications are cancelled; the run returns if
\* notifications are switched off, and calls getPrayerTimes(location) if not
Cancelled ==
  /\ schedPc = "cancel"
  /\ scheduled' = {}
  /\ schedPc' = IF ~settings.notificationsEnabled THEN "done" ELSE "prayers"
  /\ UNCHANGED callVars
  /\ UNCHANGED <<settings, schedNow, prayerIndex, prayerTime, waits>>
  /\ UNCHANGED <<fnVars, uiVars>>

\* getPrayerTimes(location) resolves with the calculated list of the
\* location, and `now` is read from the clock
GetPrayers ==
  /\ schedPc = "prayers"
  /\ \E l \in CalculatedFor(location) :
       /\ rawTimes' = RawPrayerTimes(l.latitude, l.longitude, now)
       /\ times' = HourMinuteList(rawTimes')
       /\ prayers' = calculatePrayerTimes(times', now)
  /\ schedNow' = <<now>>
  /\ prayerIndex' = 1
  /\ schedPc' = "loop"
  /\ UNCHANGED <<pc, now, location, date>>
  /\ UNCHANGED <<settings, prayerTime, scheduled, waits>>
  /\ UNCHANGED <<fnVars, uiVars>>

\* getPrayerTimes(undefined) resolves with the mock list, the permission or
\* the position not being obtained, and `now` is read from the clock
GetMockPrayers ==
  /\ schedPc = "prayers"
  /\ location = <<>>
  /\ times' = MockPrayers
  /\ prayers' = getMockPrayerTimes(now)
  /\ schedNow' = <<now>>
  /\ prayerIndex' = 1
  /\ schedPc' = "loop"
  /\ UNCHANGED <<pc, now, location, date, rawTimes>>
  /\ UNCHANGED <<settings, prayerTime, scheduled, waits>>
  /\ UNCHANGED <<fnVars, uiVars>>

\* one entry of the loop, up to the reminder: Sunrise and a time that does
\* not parse are skipped; prayerTime is set to the time of the entry today,
\* or tomorrow if that is not after `now`; the reminder is handed to
\* scheduleNotification if reminders are on and its time is after `now`
Reminder ==
  /\ schedPc = "loop"
  /\ prayerIndex <= Len(prayers)
  /\ LET prayer == prayers[prayerIndex]
         timeData == parseTimeString(prayer.time)
     IN  IF prayer.name = "Sunrise" \/ timeData = <<>>
         THEN /\ prayerIndex' = prayerIndex + 1
              /\ UNCHANGED <<schedPc, prayerTime, scheduled>>
         ELSE LET today == timeData[1].hours * SecondsPerHour + timeData[1].minutes * 60
                  time == IF today <= ClockSeconds(schedNow[1])
                          THEN today + SecondsPerDay ELSE today
                  reminderTime == time - settings.reminderMinutes * 60
              IN  /\ prayerTime' = time
                  /\ scheduled' =
                       IF settings.reminderMinutes > 0
                            /\ reminderTime > ClockSeconds(schedNow[1])
                       THEN scheduleNotification(scheduled, prayer.name,
                                                 "reminder", reminderTime, now)
                       ELSE scheduled
                  /\ schedPc' = "adhan"
                  /\ UNCHANGED prayerIndex
  /\ UNCHANGED callVars
  /\ UNCHANGED <<settings, schedNow, waits>>
  /\ UNCHANGED <<fnVars, uiVars>>

\* the rest of the entry: the adhan is handed to scheduleNotification if it
\* is enabled, and the loop goes to the next entry
Adhan ==
  /\ schedPc = "adhan"
  /\ scheduled' =
       IF settings.adhanEnabled
       THEN scheduleNotification(scheduled, prayers[prayerIndex].name, "adhan",
                                 prayerTime, now)
       ELSE scheduled
  /\ prayerIndex' = prayerIndex + 1
  /\ schedPc' = "loop"
  /\ UNCHANGED callVars
  /\ UNCHANGED <<settings, schedNow, prayerTime, waits>>
  /\ UNCHANGED <<fnVars, uiVars>>

\* the loop has ended: 'All prayer notifications scheduled successfully'
LoopEnds ==
  /\ schedPc = "loop"
  /\ prayerIndex > Len(prayers)
  /\ schedPc' = "done"
  /\ UNCHANGED callVars
  /\ UNCHANGED <<settings, schedNow, prayerIndex, prayerTime, scheduled, waits>>
  /\ UNCHANGED <<fnVars, uiVars>>

\* the run has returned: its locals are gone, the registered notifications
\* stay
Returned ==
  /\ schedPc = "done"
  /\ schedPc' = "idle"
  /\ location' = <<>>
  /\ times' = <<>>
  /\ prayers' = <<>>
  /\ schedNow' = <<>>
  /\ prayerIndex' = 0
  /\ prayerTime' = 0
  /\ waits' = 0
  /\ rawTimes' = <<>>
  /\ UNCHANGED <<pc, now, date>>
  /\ UNCHANGED <<settings, scheduled>>
  /\ UNCHANGED <<fnVars, uiVars>>

\* time passes while the run awaits or is suspended
Wait ==
  /\ schedPc \notin {"idle", "done"}
  /\ waits < MaxRunWaits
  /\ \E c \in LaterReadings(now) : now' = c
  /\ waits' = waits + 1
  /\ UNCHANGED <<pc, location, date, rawTimes, times, prayers>>
  /\ UNCHANGED <<settings, schedPc, schedNow, prayerIndex, prayerTime, scheduled>>
  /\ UNCHANGED <<fnVars, uiVars>>

NotifNext ==
  \/ ScheduleAll
  \/ Cancelled
  \/ GetPrayers
  \/ GetMockPrayers
  \/ Reminder
  \/ Adhan
  \/ LoopEnds
  \/ Returned
  \/ Wait

NotifSpec == NotifInit /\ [][NotifNext]_vars

(***************************************************************************)
(* App start-up and the onboarding wizard                                  *)
(***************************************************************************)
\* events handled on one render, before React renders the component again
MaxPresses == 2

\* times the app is started again
MaxLaunches == 1

\* currentStep is followed up to this value
MaxStep == 6

\* steps.length - 1
LastStep == 6 - 1

\* what is typed into the name field
UserNames == {<<" ">>, <<"A">>}

\* what is typed into the city field
SearchCities == {<<>>, <<"m", "e", "c", "c", "a">>}

\* what Location.getCurrentPositionAsync resolves with during the onboarding
WizardPositions == {MkLocation(21423, 39826)}

AppInit ==
  /\ pc = "idle"
  /\ now = MkDate(2025, 5, 21, 0, 0, 0, 0)
  /\ location = <<>>
  /\ date = <<>>
  /\ rawTimes = <<>>
  /\ times = <<>>
  /\ prayers = <<>>
  /\ FnIdle
  /\ UiIdle
  /\ NotifIdle

\* StartState with a fault: the onboarding record is not looked at
StartStateSkips(seenWelcome, onboarding) ==
  IF ~seenWelcome THEN "welcome" ELSE "main"

\* the state checkAppState sets from the two items it read
StartState(seenWelcome, onboarding) ==
  IF ~seenWelcome THEN "welcome"
  ELSE IF ~(onboarding # <<>> /\ onboarding[1].completed) THEN "onboarding"
  ELSE "main"

\* the OnboardingScreen is mounted (again): its state is the initial one and
\* what its handlers had in flight no longer has a component to update
WizardReset ==
  /\ currentStep' = 0
  /\ loading' = FALSE
  /\ onboardingData' = InitialOnboardingData
  /\ view' = [currentStep |-> 0, loading |-> FALSE,
              onboardingData |-> InitialOnboardingData]
  /\ presses' = 0
  /\ completePc' = "idle"
  /\ completeData' = InitialOnboardingData
  /\ locatePc' = "idle"
  /\ locateCity' = <<>>

\* the fonts are loaded and the effect runs checkAppState once: it reads the
\* two items (a read that throws goes to the catch block) and sets appState
CheckAppState ==
  /\ appState = "loading"
  /\ \E throws \in BOOLEAN :
       appState' = IF throws THEN "welcome"
                   ELSE StartState(hasSeenWelcome, salatiOnboarding)
  /\ UNCHANGED <<launches, welcomePending, onCompleteCalled, hasSeenWelcome,
                 salatiOnboarding, salatiSettings>>
  /\ UNCHANGED wizardVars
  /\ UNCHANGED <<callVars, fnVars, notifVars, eventsPerRender>>
  /\ UNCHANGED <<concVars, themeVars, compassVars>>

\* the button of the WelcomeScreen is pressed: handleWelcomeDone awaits
\* AsyncStorage.setItem('hasSeenWelcome', 'true')
WelcomePressed ==
  /\ appState = "welcome"
  /\ welcomePending < MaxPresses
  /\ welcomePending' = welcomePending + 1
  /\ UNCHANGED <<appState, launches, onCompleteCalled, hasSeenWelcome,
                 salatiOnboarding, salatiSettings>>
  /\ UNCHANGED wizardVars
  /\ UNCHANGED <<callVars, fnVars, notifVars, eventsPerRender>>
  /\ UNCHANGED <<concVars, themeVars, compassVars>>

\* the setItem of handleWelcomeDone settles: stored or not, the handler sets
\* appState to 'onboarding'
WelcomeSaved ==
  /\ welcomePending > 0
  /\ welcomePending' = welcomePending - 1
  /\ \E stored \in BOOLEAN : hasSeenWelcome' = (hasSeenWelcome \/ stored)
  /\ appState' = "onboarding"
  /\ UNCHANGED <<launches, onCompleteCalled, salatiOnboarding, salatiSettings>>
  /\ UNCHANGED wizardVars
  /\ UNCHANGED <<callVars, fnVars, notifVars, eventsPerRender>>
  /\ UNCHANGED <<concVars, themeVars, compassVars>>

\* the OnboardingScreen is on screen and takes another event on this render
CanPress ==
  /\ appState = "onboarding"
  /\ presses < eventsPerRender

\* onChangeText of the name field, which the name step (1) renders
TypeName ==
  /\ CanPress
  /\ view.currentStep = 1
  /\ \E text \in UserNames :
       onboardingData' = [onboardingData EXCEPT !.userName = text]
  /\ presses' = presses + 1
  /\ UNCHANGED <<currentStep, loading, view, completePc, completeData,
                 locatePc, locateCity>>
  /\ UNCHANGED appVars
  /\ UNCHANGED <<callVars, fnVars, notifVars, eventsPerRender>>
  /\ UNCHANGED <<concVars, themeVars, compassVars>>

\* handleNext, with the currentStep and onboardingData of the render the
\* button belongs to; on the last step it starts handleComplete, which sets
\* loading and awaits AsyncStorage.setItem('salatiOnboarding', ...)
HandleNext ==
  /\ CanPress
  /\ ~view.loading
  /\ presses' = presses + 1
  /\ IF view.currentStep = LastStep
     THEN /\ completePc = "idle"
          /\ completePc' = "saveOnboarding"
          /\ completeData' = view.onboardingData
          /\ loading' = TRUE
          /\ UNCHANGED currentStep
     ELSE /\ IF \/ (view.currentStep = 1
                      /\ Trim(view.onboardingData.userName) = <<>>)
                \/ (view.currentStep = 2
                      /\ view.onboardingData.location = <<>>)
             THEN UNCHANGED currentStep
             ELSE /\ currentStep < MaxStep
                  /\ currentStep' = currentStep + 1
          /\ UNCHANGED <<loading, completePc, completeData>>
  /\ UNCHANGED <<onboardingData, view, locatePc, locateCity>>
  /\ UNCHANGED appVars
  /\ UNCHANGED <<callVars, fnVars, notifVars, eventsPerRender>>
  /\ UNCHANGED <<concVars, themeVars, compassVars>>

\* handleBack, from the button rendered when currentStep > 0
HandleBack ==
  /\ CanPress
  /\ view.currentStep > 0
  /\ currentStep' = currentStep - 1
  /\ presses' = presses + 1
  /\ UNCHANGED <<loading, onboardingData, view, completePc, completeData,
                 locatePc, locateCity>>
  /\ UNCHANGED appVars
  /\ UNCHANGED <<callVars, fnVars, notifVars, eventsPerRender>>
  /\ UNCHANGED <<concVars, themeVars, compassVars>>

\* the location step (2) shows the two location buttons while no location
\* is set
LocationButtonsShown ==
  /\ view.currentStep = 2
  /\ view.onboardingData.location = <<>>
  /\ ~view.loading

\* handleLocationAuto is pressed: setLoading(true) and the permission request
LocationAuto ==
  /\ CanPress
  /\ LocationButtonsShown
  /\ locatePc = "idle"
  /\ locatePc' = "auto"
  /\ loading' = TRUE
  /\ presses' = presses + 1
  /\ UNCHANGED <<currentStep, onboardingData, view, completePc, completeData,
                 locateCity>>
  /\ UNCHANGED appVars
  /\ UNCHANGED <<callVars, fnVars, notifVars, eventsPerRender>>
  /\ UNCHANGED <<concVars, themeVars, compassVars>>

\* handleLocationManual is pressed: a blank citySearch is refused, any other
\* is handed to geocodeLocation
LocationManual ==
  /\ CanPress
  /\ LocationButtonsShown
  /\ locatePc = "idle"
  /\ presses' = presses + 1
  /\ \E citySearch \in SearchCities :
       IF Trim(citySearch) = <<>>
       THEN UNCHANGED <<loading, locatePc, locateCity>>
       ELSE /\ loading' = TRUE
            /\ locatePc' = "manual"
            /\ locateCity' = citySearch
  /\ UNCHANGED <<currentStep, onboardingData, view, completePc, completeData>>
  /\ UNCHANGED appVars
  /\ UNCHANGED <<callVars, fnVars, notifVars, eventsPerRender>>
  /\ UNCHANGED <<concVars, themeVars, compassVars>>

\* getCurrentLocation(): the location of a stored onboarding record whose
\* latitude is not 0, and the device's position otherwise
CurrentLocation(position) ==
  IF /\ salatiOnboarding # <<>>
     /\ salatiOnboarding[1].location # <<>>
     /\ salatiOnboarding[1].location[1].latitude # 0
  THEN salatiOnboarding[1].location[1]
  ELSE position

\* the location handler in flight settles: handleLocationAuto sets the
\* location unless the permission is refused or getCurrentLocation throws,
\* handleLocationManual sets what geocodeLocation resolved with; both end
\* with setLoading(false)
LocationSettles ==
  /\ locatePc # "idle"
  /\ IF locatePc = "auto"
     THEN \E found \in BOOLEAN, position \in WizardPositions :
            onboardingData' =
              IF found
              THEN [onboardingData EXCEPT
                      !.location = <<CurrentLocation(position)>>]
              ELSE onboardingData
     ELSE LET resolved == geocodeLocation(locateCity)
          IN  onboardingData' =
                [onboardingData EXCEPT
                   !.location = <<MkLocation(resolved.latitude,
                                             resolved.longitude)>>]
  /\ loading' = FALSE
  /\ locatePc' = "idle"
  /\ locateCity' = <<>>
  /\ UNCHANGED <<currentStep, view, presses, completePc, completeData>>
  /\ UNCHANGED appVars
  /\ UNCHANGED <<callVars, fnVars, notifVars, eventsPerRender>>
  /\ UNCHANGED <<concVars, themeVars, compassVars>>

\* "Change location", shown on the location step once a location is set
ChangeLocation ==
  /\ CanPress
  /\ view.currentStep = 2
  /\ view.onboardingData.location # <<>>
  /\ onboardingData' = [onboardingData EXCEPT !.location = <<>>]
  /\ presses' = presses + 1
  /\ UNCHANGED <<currentStep, loading, view, completePc, completeData,
                 locatePc, locateCity>>
  /\ UNCHANGED appVars
  /\ UNCHANGED <<callVars, fnVars, notifVars, eventsPerRender>>
  /\ UNCHANGED <<concVars, themeVars, compassVars>>

\* the notifications switch of step 3
ToggleNotifications ==
  /\ CanPress
  /\ view.currentStep = 3
  /\ onboardingData' =
       [onboardingData EXCEPT
          !.notificationsEnabled = ~view.onboardingData.notificationsEnabled]
  /\ presses' = presses + 1
  /\ UNCHANGED <<currentStep, loading, view, completePc, completeData,
                 locatePc, locateCity>>
  /\ UNCHANGED appVars
  /\ UNCHANGED <<callVars, fnVars, notifVars, eventsPerRender>>
  /\ UNCHANGED <<concVars, themeVars, compassVars>>

\* React renders the OnboardingScreen with the state as it is now
Render ==
  /\ appState = "onboarding"
  /\ (presses > 0 \/ view # Rendered)
  /\ view' = Rendered
  /\ presses' = 0
  /\ UNCHANGED <<currentStep, loading, onboardingData, completePc,
                 completeData, locatePc, locateCity>>
  /\ UNCHANGED appVars
  /\ UNCHANGED <<callVars, fnVars, notifVars, eventsPerRender>>
  /\ UNCHANGED <<concVars, themeVars, compassVars>>

\* the catch and finally blocks of handleComplete
CompleteFails ==
  /\ completePc' = "idle"
  /\ completeData' = InitialOnboardingData
  /\ loading' = FALSE
  /\ UNCHANGED <<appState, onCompleteCalled>>
  /\ UNCHANGED <<currentStep, onboardingData, view, presses, locatePc,
                 locateCity>>

\* onComplete() is handleOnboardingComplete: appState becomes 'main' and the
\* OnboardingScreen is unmounted
OnComplete ==
  /\ appState' = "main"
  /\ onCompleteCalled' = TRUE
  /\ WizardReset

\* the record handleComplete writes under 'salatiOnboarding'
OnboardingRecord(data) ==
  [completed |-> TRUE,
   userName |-> data.userName,
   location |-> data.location,
   notificationsEnabled |-> data.notificationsEnabled]

\* the record handleComplete writes under 'salatiSettings'
SettingsRecord(data) ==
  [userName |-> data.userName,
   location |-> data.location,
   notificationsEnabled |-> data.notificationsEnabled,
   language |-> "English",
   isDarkMode |-> FALSE,
   showDegrees |-> TRUE]

\* handleComplete: the setItem of 'salatiOnboarding' settles; storage serves
\* its requests in the order they were made, so the writes of
\* handleWelcomeDone have settled before
SaveOnboarding ==
  /\ completePc = "saveOnboarding"
  /\ welcomePending = 0
  /\ \E stored \in BOOLEAN :
       IF stored
       THEN /\ salatiOnboarding' = <<OnboardingRecord(completeData)>>
            /\ completePc' = "saveSettings"
            /\ UNCHANGED <<appState, onCompleteCalled>>
            /\ UNCHANGED <<currentStep, loading, onboardingData, view, presses,
                           completeData, locatePc, locateCity>>
       ELSE /\ CompleteFails
            /\ UNCHANGED salatiOnboarding
  /\ UNCHANGED <<launches, welcomePending, hasSeenWelcome, salatiSettings>>
  /\ UNCHANGED <<callVars, fnVars, notifVars, eventsPerRender>>
  /\ UNCHANGED <<concVars, themeVars, compassVars>>

\* handleComplete: the setItem of 'salatiSettings' settles; with
\* notifications off, onComplete() follows at once
SaveSettings ==
  /\ completePc = "saveSettings"
  /\ \E stored \in BOOLEAN :
       IF stored
       THEN /\ salatiSettings' = <<SettingsRecord(completeData)>>
            /\ IF completeData.notificationsEnabled
               THEN /\ completePc' = "initialize"
                    /\ UNCHANGED <<appState, onCompleteCalled>>
                    /\ UNCHANGED <<currentStep, loading, onboardingData, view,
                                   presses, completeData, locatePc, locateCity>>
               ELSE OnComplete
       ELSE /\ CompleteFails
            /\ UNCHANGED salatiSettings
  /\ UNCHANGED <<launches, welcomePending, hasSeenWelcome, salatiOnboarding>>
  /\ UNCHANGED <<callVars, fnVars, notifVars, eventsPerRender>>
  /\ UNCHANGED <<concVars, themeVars, compassVars>>

\* handleComplete: notificationService.initialize() settles; it throws when
\* the notification permission is not granted
Initialize ==
  /\ completePc = "initialize"
  /\ \E status \in {"granted", "denied"} :
       IF status # "granted"
       THEN CompleteFails
       ELSE /\ completePc' = "updateSettings"
            /\ UNCHANGED <<appState, onCompleteCalled>>
            /\ UNCHANGED <<currentStep, loading, onboardingData, view, presses,
                           completeData, locatePc, locateCity>>
  /\ UNCHANGED <<launches, welcomePending, hasSeenWelcome, salatiOnboarding,
                 salatiSettings>>
  /\ UNCHANGED <<callVars, fnVars, notifVars, eventsPerRender>>
  /\ UNCHANGED <<concVars, themeVars, compassVars>>

\* handleComplete: notificationService.updateSettings(...) resolves (the
\* scheduling it starts catches its own errors) and onComplete() is called
UpdateSettings ==
  /\ completePc = "updateSettings"
  /\ OnComplete
  /\ UNCHANGED <<launches, welcomePending, hasSeenWelcome, salatiOnboarding,
                 salatiSettings>>
  /\ UNCHANGED <<callVars, fnVars, notifVars, eventsPerRender>>
  /\ UNCHANGED <<concVars, themeVars, compassVars>>

\* the app is closed and started again: the components are constructed anew
\* and storage is as it was left
Restart ==
  /\ launches < MaxLaunches
  /\ launches' = launches + 1
  /\ appState' = "loading"
  /\ welcomePending' = 0
  /\ WizardReset
  /\ UNCHANGED <<onCompleteCalled, hasSeenWelcome, salatiOnboarding,
                 salatiSettings>>
  /\ UNCHANGED <<callVars, fnVars, notifVars, eventsPerRender>>
  /\ UNCHANGED <<concVars, themeVars, compassVars>>

AppNext ==
  \/ CheckAppState
  \/ WelcomePressed
  \/ WelcomeSaved
  \/ TypeName
  \/ HandleNext
  \/ HandleBack
  \/ LocationAuto
  \/ LocationManual
  \/ LocationSettles
  \/ ChangeLocation
  \/ ToggleNotifications
  \/ Render
  \/ SaveOnboarding
  \/ SaveSettings
  \/ Initialize
  \/ UpdateSettings
  \/ Restart

AppSpec == AppInit /\ [][AppNext]_vars

\* the OnboardingScreen right after handleWelcomeDone mounted it, taking up to
\* MaxPresses events on one render
WizardInit ==
  /\ pc = "idle"
  /\ now = MkDate(2025, 5, 21, 0, 0, 0, 0)
  /\ location = <<>>
  /\ date = <<>>
  /\ rawTimes = <<>>
  /\ times = <<>>
  /\ prayers = <<>>
  /\ FnIdle
  /\ NotifIdle
  /\ appState = "onboarding"
  /\ launches = 0
  /\ welcomePending = 0
  /\ onCompleteCalled = FALSE
  /\ hasSeenWelcome = TRUE
  /\ salatiOnboarding = <<>>
  /\ salatiSettings = <<>>
  /\ WizardInitial
  /\ eventsPerRender = MaxPresses
  /\ ConcIdle
  /\ ThemeIdle
  /\ CompassIdle

WizardNext ==
  \/ TypeName
  \/ HandleNext
  \/ HandleBack
  \/ LocationAuto
  \/ LocationManual
  \/ LocationSettles
  \/ ChangeLocation
  \/ ToggleNotifications
  \/ Render
  \/ SaveOnboarding
  \/ SaveSettings
  \/ Initialize
  \/ UpdateSettings

WizardSpec == WizardInit /\ [][WizardNext]_vars

(***************************************************************************)
(* Calls of the NotificationService in flight at the same time             *)
(***************************************************************************)
ConcInit ==
  /\ pc = "idle"
  /\ now = MkDate(2025, 5, 21, 0, 0, 0, -180)
  /\ location = <<>>
  /\ date = <<>>
  /\ rawTimes = <<>>
  /\ times = <<>>
  /\ prayers = <<>>
  /\ FnIdle
  /\ UiIdle
  /\ NotifIdle

\* the list getPrayerTimes() resolves with for a call that passes no location
\* and gets none from the device
RunPrayers == getMockPrayerTimes(now)

\* scheduleNotification as far as the system is concerned: a registration
\* gets a notificationId of its own, here the call that made it
scheduleNotificationBy(id, registered, prayerName, type, trigger, clock) ==
  IF TriggerInFuture(trigger, ClockSeconds(clock))
  THEN registered \cup {[notificationId |-> id, prayerName |-> prayerName,
                         type |-> type, trigger |-> trigger,
                         at |-> ClockSeconds(clock)]}
  ELSE registered

\* call r moves to `to`
RunGoes(r, to) == runs' = [runs EXCEPT ![r].pc = to]

\* scheduleAllPrayerNotifications is called (by loadPrayerData, which the
\* HomeScreen runs on mount, on refresh and every minute, or by
\* scheduleNextDayPrayers) and awaits cancelAllScheduledNotificationsAsync()
RunScheduleAll(r) ==
  /\ runs[r].pc = "idle"
  /\ RunGoes(r, "cancel")
  /\ UNCHANGED <<callVars, fnVars, notifVars>>
  /\ UNCHANGED <<appVars, wizardVars, eventsPerRender, themeVars, compassVars>>

\* updateSettings({notificationsEnabled: newValue}), from
\* handleNotificationsToggle: the settings are merged, then
\* scheduleAllPrayerNotifications() or cancelAllNotifications() is awaited
RunUpdateSettings(r) ==
  /\ runs[r].pc = "idle"
  /\ \E newValue \in BOOLEAN :
       /\ settings' = [settings EXCEPT !.notificationsEnabled = newValue]
       /\ RunGoes(r, IF newValue THEN "cancel" ELSE "cancelAll")
  /\ UNCHANGED <<schedPc, schedNow, prayerIndex, prayerTime, scheduled, waits>>
  /\ UNCHANGED <<callVars, fnVars>>
  /\ UNCHANGED <<appVars, wizardVars, eventsPerRender, themeVars, compassVars>>

\* cancelAllNotifications() of updateSettings settles
RunCancelAll(r) ==
  /\ runs[r].pc = "cancelAll"
  /\ scheduled' = {}
  /\ RunGoes(r, "idle")
  /\ UNCHANGED <<settings, schedPc, schedNow, prayerIndex, prayerTime, waits>>
  /\ UNCHANGED <<callVars, fnVars>>
  /\ UNCHANGED <<appVars, wizardVars, eventsPerRender, themeVars, compassVars>>

\* the cancellation scheduleAllPrayerNotifications awaited settles; the call
\* returns if notifications are switched off and awaits getPrayerTimes if not
RunCancelled(r) ==
  /\ runs[r].pc = "cancel"
  /\ scheduled' = {}
  /\ RunGoes(r, IF ~settings.notificationsEnabled THEN "idle" ELSE "prayers")
  /\ UNCHANGED <<settings, schedPc, schedNow, prayerIndex, prayerTime, waits>>
  /\ UNCHANGED <<callVars, fnVars>>
  /\ UNCHANGED <<appVars, wizardVars, eventsPerRender, themeVars, compassVars>>

\* getPrayerTimes resolves and the loop starts
RunGetPrayers(r) ==
  /\ runs[r].pc = "prayers"
  /\ runs' = [runs EXCEPT ![r].pc = "loop", ![r].prayerIndex = 1]
  /\ UNCHANGED <<callVars, fnVars, notifVars>>
  /\ UNCHANGED <<appVars, wizardVars, eventsPerRender, themeVars, compassVars>>

\* one entry of the loop of call r, up to the reminder
RunReminder(r) ==
  /\ runs[r].pc = "loop"
  /\ runs[r].prayerIndex <= Len(RunPrayers)
  /\ LET prayer == RunPrayers[runs[r].prayerIndex]
         timeData == parseTimeString(prayer.time)
     IN  IF prayer.name = "Sunrise" \/ timeData = <<>>
         THEN /\ runs' = [runs EXCEPT ![r].prayerIndex = @ + 1]
              /\ UNCHANGED scheduled
         ELSE LET today == timeData[1].hours * SecondsPerHour + timeData[1].minutes * 60
                  time == IF today <= ClockSeconds(now)
                          THEN today + SecondsPerDay ELSE today
                  reminderTime == time - settings.reminderMinutes * 60
              IN  /\ runs' = [runs EXCEPT ![r].pc = "adhan", ![r].prayerTime = time]
                  /\ scheduled' =
                       IF settings.reminderMinutes > 0
                            /\ reminderTime > ClockSeconds(now)
                       THEN scheduleNotificationBy(r, scheduled, prayer.name,
                                                   "reminder", reminderTime, now)
                       ELSE scheduled
  /\ UNCHANGED <<settings, schedPc, schedNow, prayerIndex, prayerTime, waits>>
  /\ UNCHANGED <<callVars, fnVars>>
  /\ UNCHANGED <<appVars, wizardVars, eventsPerRender, themeVars, compassVars>>

\* the rest of the entry: the adhan, and on to the next entry
RunAdhan(r) ==
  /\ runs[r].pc = "adhan"
  /\ scheduled' =
       IF settings.adhanEnabled
       THEN scheduleNotificationBy(r, scheduled,
                                   RunPrayers[runs[r].prayerIndex].name,
                                   "adhan", runs[r].prayerTime, now)
       ELSE scheduled
  /\ runs' = [runs EXCEPT ![r].pc = "loop", ![r].prayerIndex = @ + 1,
                          ![r].prayerTime = 0]
  /\ UNCHANGED <<settings, schedPc, schedNow, prayerIndex, prayerTime, waits>>
  /\ UNCHANGED <<callVars, fnVars>>
  /\ UNCHANGED <<appVars, wizardVars, eventsPerRender, themeVars, compassVars>>

\* the loop of call r has ended and the call returns
RunLoopEnds(r) ==
  /\ runs[r].pc = "loop"
  /\ runs[r].prayerIndex > Len(RunPrayers)
  /\ runs' = [runs EXCEPT ![r] = IdleRun]
  /\ UNCHANGED <<callVars, fnVars, notifVars>>
  /\ UNCHANGED <<appVars, wizardVars, eventsPerRender, themeVars, compassVars>>

ConcNext ==
  \E r \in Runs :
    \/ RunScheduleAll(r)
    \/ RunUpdateSettings(r)
    \/ RunCancelAll(r)
    \/ RunCancelled(r)
    \/ RunGetPrayers(r)
    \/ RunReminder(r)
    \/ RunAdhan(r)
    \/ RunLoopEnds(r)

ConcSpec == ConcInit /\ [][ConcNext]_vars

(***************************************************************************)
(* The 'salatiSettings' item: SettingsScreen and ThemeProvider             *)
(***************************************************************************)
\* the onboardingData of a completed onboarding
CompletedOnboarding ==
  [userName |-> <<"A">>, location |-> <<MkLocation(21423, 39826)>>,
   notificationsEnabled |-> TRUE]

\* the settings a SettingsScreen can be given
ScreenSettings ==
  {[language |-> l, showDegrees |-> d] : l \in {"English", "Arabic"}, d \in BOOLEAN}

\* the app in 'main' after the onboarding, the SettingsScreen mounted and
\* loaded from the item handleComplete stored
ThemeInit ==
  /\ pc = "idle"
  /\ now = MkDate(2025, 5, 21, 0, 0, 0, 0)
  /\ location = <<>>
  /\ date = <<>>
  /\ rawTimes = <<>>
  /\ times = <<>>
  /\ prayers = <<>>
  /\ FnIdle
  /\ NotifIdle
  /\ appState = "main"
  /\ launches = 0
  /\ welcomePending = 0
  /\ onCompleteCalled = TRUE
  /\ hasSeenWelcome = TRUE
  /\ salatiOnboarding = <<OnboardingRecord(CompletedOnboarding)>>
  /\ salatiSettings = <<SettingsRecord(CompletedOnboarding)>>
  /\ WizardInitial
  /\ eventsPerRender = 1
  /\ ConcIdle
  /\ ThemeIdle
  /\ CompassIdle

\* settingsStr ? JSON.parse(settingsStr) : {}
ParsedOrEmpty(item) == IF item # <<>> THEN item[1] ELSE <<>>

\* the object toggleDarkMode writes: what it read, with isDarkMode set
ToggledSettings(read, newDarkModeSetting) ==
  [isDarkMode |-> newDarkModeSetting] @@ ParsedOrEmpty(read)

\* the object saveSettings writes: what it read, overlaid with the state
SavedSettings(read, values) ==
  [language |-> values.language, showDegrees |-> values.showDegrees]
    @@ ParsedOrEmpty(read)

\* a setting of the SettingsScreen is changed and the effect calls
\* saveSettings, which awaits getItem('salatiSettings')
ChangeSetting ==
  /\ savePc = "idle"
  /\ \E values \in ScreenSettings \ {screenSettings} :
       /\ screenSettings' = values
       /\ saveValues' = values
  /\ savePc' = "getItem"
  /\ UNCHANGED <<isDarkMode, togglePc, toggleValue, toggleRead, saveRead>>
  /\ UNCHANGED <<callVars, fnVars, notifVars>>
  /\ UNCHANGED <<appVars, wizardVars, eventsPerRender, concVars, compassVars>>

\* saveSettings: the getItem resolves and setItem is awaited
SaveGetItem ==
  /\ savePc = "getItem"
  /\ saveRead' = salatiSettings
  /\ savePc' = "setItem"
  /\ UNCHANGED <<isDarkMode, screenSettings, togglePc, toggleValue, toggleRead,
                 saveValues>>
  /\ UNCHANGED <<callVars, fnVars, notifVars>>
  /\ UNCHANGED <<appVars, wizardVars, eventsPerRender, concVars, compassVars>>

\* saveSettings: the setItem is done
SaveSetItem ==
  /\ savePc = "setItem"
  /\ salatiSettings' = <<SavedSettings(saveRead, saveValues)>>
  /\ savePc' = "idle"
  /\ saveRead' = <<>>
  /\ saveValues' = DefaultScreenSettings
  /\ UNCHANGED <<isDarkMode, screenSettings, togglePc, toggleValue, toggleRead>>
  /\ UNCHANGED <<appState, launches, welcomePending, onCompleteCalled,
                 hasSeenWelcome, salatiOnboarding>>
  /\ UNCHANGED <<callVars, fnVars, notifVars>>
  /\ UNCHANGED <<wizardVars, eventsPerRender, concVars, compassVars>>

\* the Dark Mode switch: toggleDarkMode awaits getItem('salatiSettings');
\* newDarkModeSetting is !isDarkMode of the render the handler closed over
ToggleDarkMode ==
  /\ togglePc = "idle"
  /\ toggleValue' = ~isDarkMode
  /\ togglePc' = "getItem"
  /\ UNCHANGED <<isDarkMode, screenSettings, toggleRead, savePc, saveValues,
                 saveRead>>
  /\ UNCHANGED <<callVars, fnVars, notifVars>>
  /\ UNCHANGED <<appVars, wizardVars, eventsPerRender, concVars, compassVars>>

\* toggleDarkMode: the getItem resolves and setItem is awaited
ToggleGetItem ==
  /\ togglePc = "getItem"
  /\ toggleRead' = salatiSettings
  /\ togglePc' = "setItem"
  /\ UNCHANGED <<isDarkMode, screenSettings, toggleValue, savePc, saveValues,
                 saveRead>>
  /\ UNCHANGED <<callVars, fnVars, notifVars>>
  /\ UNCHANGED <<appVars, wizardVars, eventsPerRender, concVars, compassVars>>

\* toggleDarkMode: the setItem is done and setIsDarkMode follows
ToggleSetItem ==
  /\ togglePc = "setItem"
  /\ salatiSettings' = <<ToggledSettings(toggleRead, toggleValue)>>
  /\ isDarkMode' = toggleValue
  /\ togglePc' = "idle"
  /\ toggleRead' = <<>>
  /\ toggleValue' = FALSE
  /\ UNCHANGED <<screenSettings, savePc, saveValues, saveRead>>
  /\ UNCHANGED <<appState, launches, welcomePending, onCompleteCalled,
                 hasSeenWelcome, salatiOnboarding>>
  /\ UNCHANGED <<callVars, fnVars, notifVars>>
  /\ UNCHANGED <<wizardVars, eventsPerRender, concVars, compassVars>>

ThemeNext ==
  \/ ChangeSetting
  \/ SaveGetItem
  \/ SaveSetItem
  \/ ToggleDarkMode
  \/ ToggleGetItem
  \/ ToggleSetItem

ThemeSpec == ThemeInit /\ [][ThemeNext]_vars

(***************************************************************************)
(* QiblaCompass: setupQibla and the magnetometer listener                  *)
(***************************************************************************)
\* Magnetometer.addListener calls that are followed
MaxListeners == 3

\* the QiblaCompass right after it is mounted: the effect has called
\* setupQibla, which awaits the location permission
CompassInit ==
  /\ pc = "idle"
  /\ now = MkDate(2025, 5, 21, 0, 0, 0, 0)
  /\ location = <<>>
  /\ date = <<>>
  /\ rawTimes = <<>>
  /\ times = <<>>
  /\ prayers = <<>>
  /\ FnIdle
  /\ NotifIdle
  /\ AppIdle
  /\ WizardInitial
  /\ eventsPerRender = 1
  /\ ConcIdle
  /\ ThemeIdle
  /\ mounted = TRUE
  /\ listeners = {}
  /\ subscription = <<>>
  /\ setups = [s \in Setups |-> IF s = 1 THEN "permission" ELSE "idle"]
  /\ added = 0
  /\ qibla = <<>>

\* magnetometerSubscription.current.remove(), if there is a current one
RemoveCurrent(subscribed, current) ==
  IF current # <<>> THEN subscribed \ {current[1]} ELSE subscribed

\* setupQibla call s moves to `to`
SetupGoes(s, to) == setups' = [setups EXCEPT ![s] = to]

\* setupQibla: the permission request settles; anything but 'granted' throws
\* and the catch block sets the error
SetupPermission(s) ==
  /\ setups[s] = "permission"
  /\ \E status \in {"granted", "denied"} :
       SetupGoes(s, IF status # "granted" THEN "idle" ELSE "position")
  /\ UNCHANGED <<mounted, listeners, subscription, added, qibla>>
  /\ UNCHANGED <<callVars, fnVars, notifVars>>
  /\ UNCHANGED <<appVars, wizardVars, eventsPerRender, concVars, themeVars>>

\* setupQibla: getCurrentPositionAsync rejects and the catch block sets the
\* error
SetupPositionFails(s) ==
  /\ setups[s] = "position"
  /\ SetupGoes(s, "idle")
  /\ UNCHANGED <<mounted, listeners, subscription, added, qibla>>
  /\ UNCHANGED <<callVars, fnVars, notifVars>>
  /\ UNCHANGED <<appVars, wizardVars, eventsPerRender, concVars, themeVars>>

\* setupQibla: the position arrives (the reverse geocoding only names it):
\* the direction and the distance are set, where the component is still
\* mounted, and startMagnetometer() removes the current subscription and
\* adds a listener
SetupPosition(s) ==
  /\ setups[s] = "position"
  /\ added < MaxListeners
  /\ \E coords \in DevicePositions :
       qibla' =
         IF mounted
         THEN <<[direction |-> calculateQiblaDirection(coords.latitude,
                                                       coords.longitude),
                 distance |-> calculateDistance(coords.latitude, coords.longitude,
                                                KAABA_LOCATION.latitude,
                                                KAABA_LOCATION.longitude)]>>
         ELSE qibla
  /\ added' = added + 1
  /\ listeners' = RemoveCurrent(listeners, subscription) \cup {added'}
  /\ subscription' = <<added'>>
  /\ SetupGoes(s, "idle")
  /\ UNCHANGED mounted
  /\ UNCHANGED <<callVars, fnVars, notifVars>>
  /\ UNCHANGED <<appVars, wizardVars, eventsPerRender, concVars, themeVars>>

\* 'Start Calibration' of handleRecalibrate: the current subscription is
\* removed and setupQibla is called
Recalibrate(s) ==
  /\ mounted
  /\ setups[s] = "idle"
  /\ listeners' = RemoveCurrent(listeners, subscription)
  /\ SetupGoes(s, "permission")
  /\ UNCHANGED <<mounted, subscription, added, qibla>>
  /\ UNCHANGED <<callVars, fnVars, notifVars>>
  /\ UNCHANGED <<appVars, wizardVars, eventsPerRender, concVars, themeVars>>

\* the button of the error view: setupQibla is called again
Retry(s) ==
  /\ mounted
  /\ setups[s] = "idle"
  /\ SetupGoes(s, "permission")
  /\ UNCHANGED <<mounted, listeners, subscription, added, qibla>>
  /\ UNCHANGED <<callVars, fnVars, notifVars>>
  /\ UNCHANGED <<appVars, wizardVars, eventsPerRender, concVars, themeVars>>

\* the component unmounts: the cleanup of the effect removes the current
\* subscription
Unmount ==
  /\ mounted
  /\ mounted' = FALSE
  /\ listeners' = RemoveCurrent(listeners, subscription)
  /\ UNCHANGED <<subscription, setups, added, qibla>>
  /\ UNCHANGED <<callVars, fnVars, notifVars>>
  /\ UNCHANGED <<appVars, wizardVars, eventsPerRender, concVars, themeVars>>

CompassNext ==
  \/ Unmount
  \/ \E s \in Setups :
       \/ SetupPermission(s)
       \/ SetupPositionFails(s)
       \/ SetupPosition(s)
       \/ Recalibrate(s)
       \/ Retry(s)

CompassSpec == CompassInit /\ [][CompassNext]_vars

(***************************************************************************)
(* Properties                                                              *)
(***************************************************************************)
\* the call has resolved with a list
Resolved == pc = "done"

\* the call has resolved with the list of calculatePrayerTimes
Calculated == pc = "done" /\ rawTimes # <<>>

\* the call has resolved with the list of getMockPrayerTimes
Mocked == pc = "done" /\ rawTimes = <<>>

\* minutes since midnight of entry i of the list the flags were computed from
MinutesOf(i) == times[i].hour * 60 + times[i].minute

\* the entries of the resolved list that are not passed
NotPassed == {i \in 1..6 : ~prayers[i].isPassed}

\* the entries of the resolved list flagged next
FlaggedNext == {i \in 1..6 : prayers[i].isNext}

\* C1: in a resolved list (computed or mock), every entry's isPassed is true
\* exactly when its minutes since midnight are at most the clock's.
C1_PassedIffDue ==
  Resolved =>
    \A i \in 1..6 : prayers[i].isPassed <=> (MinutesOf(i) <= CurrentMinutes(now))

\* C1 witness: a computed list with an entry due at this very minute (passed)
\* and an entry that is not passed.
C1_Witness ==
  /\ Calculated
  /\ \E i \in 1..6 : MinutesOf(i) = CurrentMinutes(now) /\ prayers[i].isPassed
  /\ NotPassed # {}

\* C2: in a computed list, the entry flagged isNext is the lowest-index entry
\* that is not passed, and entry 0 (Fajr) when every entry is passed.
C2_NextIsFirstNotPassed ==
  Calculated =>
    \A i \in 1..6 :
      prayers[i].isNext <=>
        IF NotPassed = {} THEN i = 1
        ELSE i \in NotPassed /\ \A j \in NotPassed : i <= j

\* C2 witness: a list that is not sorted, where the entry flagged next is
\* followed by an entry that is due earlier and not passed either.
C2_Witness ==
  /\ Calculated
  /\ \E i \in 1..6 :
       /\ prayers[i].isNext
       /\ i > 1
       /\ \E j \in (i + 1)..6 : ~prayers[j].isPassed /\ MinutesOf(j) < MinutesOf(i)

\* C3: in a resolved list exactly one entry has isNext = true, and it is
\* entry 0 when every entry is passed.
C3_ExactlyOneNext ==
  Resolved =>
    /\ Cardinality(FlaggedNext) = 1
    /\ (NotPassed = {} => prayers[1].isNext)

\* C3 witness: a computed list with every entry passed, Fajr flagged next.
C3_Witness ==
  /\ Calculated
  /\ NotPassed = {}
  /\ FlaggedNext = {1}

\* C4 (as claimed): in a resolved list no entry is both passed and next.
C4_NeverPassedAndNext ==
  Resolved => \A i \in 1..6 : ~(prayers[i].isPassed /\ prayers[i].isNext)

\* C4 (amended): an entry is both passed and next only when every entry is
\* passed, and then it is entry 0 (Fajr, next for tomorrow).
C4_PassedAndNextOnlyOnWrap ==
  Resolved =>
    \A i \in 1..6 :
      (prayers[i].isPassed /\ prayers[i].isNext) => (NotPassed = {} /\ i = 1)

\* C4 witness: the mock list after Isha: Fajr is passed and flagged next, and
\* no other entry is flagged next.
C4_Witness ==
  /\ Mocked
  /\ NotPassed = {}
  /\ prayers[1].isPassed /\ prayers[1].isNext
  /\ \A i \in 2..6 : prayers[i].isPassed /\ ~prayers[i].isNext

\* the arguments of the resolved call and the solar parameters they give
CallLat == location[1].latitude

CallLng == location[1].longitude

CallOffset == TimezoneOffset(date[1])

CallDeclination == getSolarDeclination(getJulianDate(date[1]))

CallSolarNoon == getSolarNoon(CallLng, getEquationOfTime(getJulianDate(date[1])), CallOffset)

\* cos(H) of the resolved call for a depression angle, and for Asr
CosHAt(angle) == CosHourAngle(Sin(angle), CallLat, CallDeclination)

CosHAsr == CosHourAngle(SinAsrElevation(CallLat, CallDeclination), CallLat, CallDeclination)

\* C5 (as claimed): when no hour angle is undefined, the six raw times are
\* non-decreasing in the order fajr, sunrise, dhuhr, asr, maghrib, isha.
C5_NonDecreasing ==
  ( /\ Calculated
    /\ ~HourAngleUndefined(CosHAt(fajrAngle))
    /\ ~HourAngleUndefined(CosHAt(maghribAngle))
    /\ ~HourAngleUndefined(CosHAt(ishaAngle))
    /\ ~HourAngleUndefined(CosHAsr) )
  => \A i \in 1..5 : rawTimes[i] <= rawTimes[i + 1]

\* C6 (as claimed): with H defined, Fajr and Sunrise are solar noon minus H,
\* Dhuhr is solar noon, and Asr, Maghrib and Isha are solar noon plus H.
C6_SidesOfNoon ==
  Calculated =>
    /\ ~HourAngleUndefined(CosHAt(fajrAngle))
         => rawTimes[1] = CallSolarNoon - HourAngle(CosHAt(fajrAngle))
    /\ ~HourAngleUndefined(CosHAt(maghribAngle))
         => rawTimes[2] = CallSolarNoon - HourAngle(CosHAt(maghribAngle))
    /\ rawTimes[3] = CallSolarNoon
    /\ ~HourAngleUndefined(CosHAsr)
         => rawTimes[4] = CallSolarNoon + HourAngle(CosHAsr)
    /\ ~HourAngleUndefined(CosHAt(maghribAngle))
         => rawTimes[5] = CallSolarNoon + HourAngle(CosHAt(maghribAngle))
    /\ ~HourAngleUndefined(CosHAt(ishaAngle))
         => rawTimes[6] = CallSolarNoon + HourAngle(CosHAt(ishaAngle))

\* C7 (as claimed): with no solution for the Fajr and Isha angles, the raw
\* Fajr time is 6 h + offset and the raw Isha time is 18 h + offset.
C7_FajrIshaFallback ==
  ( /\ Calculated
    /\ HourAngleUndefined(CosHAt(fajrAngle))
    /\ HourAngleUndefined(CosHAt(ishaAngle)) )
  => /\ rawTimes[1] = 6 * SecondsPerHour + CallOffset
     /\ rawTimes[6] = 18 * SecondsPerHour + CallOffset

\* C8: with |cos(H)| > 1 the raw time is 6 h + offset for Sunrise, 18 h + offset
\* for Maghrib and 15 h + offset for Asr; with |cos(H)| <= 1 it is solar noon
\* minus or plus the hour angle, and no fallback time.
C8_FallbackTimes ==
  Calculated =>
    /\ rawTimes[2] = IF HourAngleUndefined(CosHAt(maghribAngle))
                     THEN 6 * SecondsPerHour + CallOffset
                     ELSE CallSolarNoon - HourAngle(CosHAt(maghribAngle))
    /\ rawTimes[5] = IF HourAngleUndefined(CosHAt(maghribAngle))
                     THEN 18 * SecondsPerHour + CallOffset
                     ELSE CallSolarNoon + HourAngle(CosHAt(maghribAngle))
    /\ rawTimes[4] = IF HourAngleUndefined(CosHAsr)
                     THEN 15 * SecondsPerHour + CallOffset
                     ELSE CallSolarNoon + HourAngle(CosHAsr)

\* C8 witness: a call whose Sunrise, Maghrib and Asr hour angles are all
\* undefined, on a device that is not on UTC.
C8_Witness ==
  /\ Calculated
  /\ HourAngleUndefined(CosHAt(maghribAngle))
  /\ HourAngleUndefined(CosHAsr)
  /\ CallOffset # 0
  /\ rawTimes[2] # rawTimes[5]

\* C9: for every raw time (negative, within the day, or a day and more),
\* timeToHourMinute returns an hour in 0..23 and a minute in 0..59.
C9_HourMinuteInRange ==
  fn = "timeToHourMinute" => result.hour \in 0..23 /\ result.minute \in 0..59

\* C9 witness: a negative raw time within half a minute before midnight, whose
\* rounded minute is 60 and is carried into hour 0.
C9_Witness ==
  /\ fn = "timeToHourMinute"
  /\ arg < 0
  /\ arg % SecondsPerHour >= SecondsPerHour - 30
  /\ result = [hour |-> 0, minute |-> 0]

\* the two characters of a number below 100, and the one or two of an hour
TwoDigits(n) == <<Digits[(n \div 10) + 1], Digits[(n % 10) + 1]>>

HourText(n) == IF n >= 10 THEN TwoDigits(n) ELSE <<Digits[n + 1]>>

\* C10: the formatted time shows 12 for hours 0 and 12, hour - 12 for hours
\* 13..23 and the hour itself for 1..11, then ":" and the minute as two
\* digits, then " AM" exactly when hour < 12, and " PM" otherwise.
C10_TwelveHourFormat ==
  fn = "formatTime" =>
    LET hour == arg.hour
        shown == IF hour \in {0, 12} THEN 12
                 ELSE IF hour \in 13..23 THEN hour - 12
                 ELSE hour
        tag == IF hour < 12 THEN <<"A", "M">> ELSE <<"P", "M">>
    IN  result = HourText(shown) \o <<":">> \o TwoDigits(arg.minute) \o <<" ">> \o tag

\* C10 witness: noon and five minutes is formatted "12:05 PM".
C10_Witness ==
  /\ fn = "formatTime"
  /\ arg = [hour |-> 12, minute |-> 5]
  /\ result = <<"1", "2", ":", "0", "5", " ", "P", "M">>

\* C11: a time text written by the formatter of the list is read back by
\* parseTimeString and by the parser of getTimeUntilNextPrayer and
\* getCurrentPrayerStatus as the hour and the minute it was written from, for
\* every hour 0..23 and minute 0..59; neither parser rejects such a text
C11_FormatParseRoundTrip ==
  fn \in {"parseTimeString", "parsePrayerTime"}
    => result = << [hours |-> arg.hour, minutes |-> arg.minute] >>

\* both parsers have read noon and midnight texts back
C11_Witness ==
  /\ fn \in {"parseTimeString", "parsePrayerTime"}
  /\ arg.hour \in {0, 12}
  /\ arg.minute = 5
  /\ result = << [hours |-> arg.hour, minutes |-> 5] >>

\* C18: for a raw time t brought into [0,24), timeToHourMinute returns an hour
\* and a minute with hour*60 + minute = round(t*60) modulo 1440; when the
\* rounded minute of the hour is 60 the result is ((floor(t)+1) mod 24, 0)
C18_RoundedMinuteOfDay ==
  fn = "timeToHourMinute" =>
    LET t == arg % SecondsPerDay
        floorT == t \div SecondsPerHour
    IN  /\ result.hour * 60 + result.minute = RoundDiv(t, 60) % (24 * 60)
        /\ RoundDiv(t - floorT * SecondsPerHour, 60) = 60
             => result = [hour |-> (floorT + 1) % 24, minute |-> 0]

\* a time of day within half a minute before midnight has become 0:00
C18_Witness ==
  /\ fn = "timeToHourMinute"
  /\ arg >= SecondsPerDay - 30
  /\ arg < SecondsPerDay
  /\ result = [hour |-> 0, minute |-> 0]

\* calendar days from 1 January 2000 to 1 January of year y: 365 for every
\* year between the two and one more for every leap year among them
DaysToYear(y) ==
  IF y >= 2000
  THEN 365 * (y - 2000) + Cardinality({yy \in 2000..(y - 1) : IsLeapYear(yy)})
  ELSE -(365 * (2000 - y) + Cardinality({yy \in y..1999 : IsLeapYear(yy)}))

\* calendar days from 1 January of year y to the first of month mo (0-based)
RECURSIVE DaysToMonth(_, _)
DaysToMonth(y, mo) ==
  IF mo = 0 THEN 0 ELSE DaysToMonth(y, mo - 1) + DaysInMonth(y, mo - 1)

\* calendar days from 1 January 2000 to the date
DaysSince2000(d) == DaysToYear(d.year) + DaysToMonth(d.year, d.month) + d.day - 1

\* C12: getJulianDate at 12:00:00 of a Gregorian date is 2451545 plus the
\* number of calendar days from 1 January 2000 to that date (so that it grows
\* by exactly 1 from a day to the next, over leap days, century years and the
\* ends of months and years)
C12_JulianDayCount ==
  fn = "getJulianDate" =>
    /\ result.frac = 0
    /\ result.jdn = 2451545 + DaysSince2000(arg)

\* the Julian date of the leap day of 2000, the 60th day of the count, and of
\* the first of March of 2100, a century year without a leap day
C12_Witness ==
  /\ fn = "getJulianDate"
  /\ \/ arg.year = 2000 /\ arg.month = 1 /\ arg.day = 29 /\ result.jdn = 2451545 + 59
     \/ arg.year = 2100 /\ arg.month = 2 /\ arg.day = 1

\* C13: the Dhuhr entry is 12 - longitude/15 - equationOfTime/60 + utcOffset,
\* reduced modulo 24 hours and rounded to the nearest minute, at every
\* latitude (latitude 0 included): the latitude does not enter it
C13_DhuhrIsSolarNoon ==
  Calculated =>
    LET equationOfTime == getEquationOfTime(getJulianDate(date[1]))
        solarNoon == 12 * SecondsPerHour - RoundDiv(CallLng * 6, 25)
                       - equationOfTime + CallOffset
    IN  MinutesOf(3) = RoundDiv(solarNoon % SecondsPerDay, 60) % (24 * 60)

\* a list calculated on the equator whose solar noon had to be reduced
\* modulo 24 hours
C13_Witness ==
  /\ Calculated
  /\ CallLat = 0
  /\ rawTimes[3] \notin 0..(SecondsPerDay - 1)

\* C14 (as claimed): the passed and next flags of a calculated list are those
\* of the instant given as `date`, the instant the Julian date is taken from,
\* so that the list is a function of latitude, longitude and date alone
C14_FlagsOfDateArgument ==
  Calculated => prayers = calculatePrayerTimes(times, date[1])

\* C15: calculateQiblaDirection returns a bearing b with 0 <= b < 360 for
\* every observer, whatever Math.atan2 gives in -180 .. 180, and so does the
\* magnetometer heading, normalised by the same (x + 360) % 360
C15_BearingInRange ==
  fn \in {"calculateQiblaDirection", "magneticHeading"}
    => result >= 0 /\ result < 360 * Deg

\* a bearing and a heading west of north, where Math.atan2 is negative
C15_Witness ==
  \/ /\ fn = "calculateQiblaDirection"
     /\ arg.longitude > KAABA_LOCATION.longitude
     /\ result > 180 * Deg
  \/ /\ fn = "magneticHeading"
     /\ arg.y < 0
     /\ result > 180 * Deg

\* C16 (as claimed): calculateDistance of a coordinate to itself is exactly
\* 0, and the distance of every pair of coordinates is >= 0
C16_DistanceZeroOrMore ==
  fn = "calculateDistance" =>
    /\ ~result.isNaN
    /\ result.value >= 0
    /\ (arg.lat1 = arg.lat2 /\ arg.lon1 = arg.lon2) => result.value = 0

\* cos(H) of the call of calculatePrayerTime that was applied
AppliedCosHourAngle == CosHourAngle(Sin(arg.angle), arg.lat, arg.declination)

C20_UnknownCityRejected ==
  fn = "geocodeLocation" =>
    (result.status = "resolved") = (FirstMatch(arg) # -1)

\* the run of scheduleAllPrayerNotifications has read its list and its `now`
ListRead == schedPc \in {"loop", "adhan", "done"} /\ schedNow # <<>>

\* the time of the entry called name, in seconds since midnight, from the
\* hour/minute list the texts of `prayers` were formatted from
EntrySeconds(name) ==
  LET i == CHOOSE k \in 1..Len(times) : times[k].name = name
  IN  times[i].hour * SecondsPerHour + times[i].minute * 60

\* the time the adhan of the entry is due: today, or tomorrow if the time of
\* today is not after `now`
DueSeconds(name) ==
  IF EntrySeconds(name) > ClockSeconds(schedNow[1])
  THEN EntrySeconds(name)
  ELSE EntrySeconds(name) + SecondsPerDay

\* C19: every notification scheduleAllPrayerNotifications registers has a
\* trigger strictly later than the clock at its registration, and none is for
\* Sunrise; an adhan is due at the prayer time of today, or of tomorrow if
\* that time is not after `now`; a reminder is due reminderMinutes before the
\* adhan and is registered only if that is after `now`
C19_TriggersAfterNow ==
  \A n \in scheduled :
    /\ n.trigger > n.at
    /\ n.prayerName # "Sunrise"
    /\ ListRead =>
         /\ n.type = "adhan" => n.trigger = DueSeconds(n.prayerName)
         /\ n.type = "reminder" =>
              /\ settings.reminderMinutes > 0
              /\ n.trigger = DueSeconds(n.prayerName) - settings.reminderMinutes * 60
              /\ n.trigger > ClockSeconds(schedNow[1])

\* a finished run that registered an adhan for today and one for tomorrow,
\* a reminder, and for one prayer of today the adhan without the reminder,
\* its time being too near
C19_Witness ==
  /\ schedPc = "done"
  /\ ListRead
  /\ \E n \in scheduled : n.type = "adhan" /\ n.trigger < SecondsPerDay
  /\ \E n \in scheduled : n.type = "adhan" /\ n.trigger >= SecondsPerDay
  /\ \E n \in scheduled : n.type = "reminder"
  /\ \E n \in scheduled :
       /\ n.type = "adhan"
       /\ n.trigger < SecondsPerDay
       /\ \A m \in scheduled : ~(m.type = "reminder" /\ m.prayerName = n.prayerName)

\* the positions a getPrayerTimes call can be at; none of them is a rejection
CallPositions == {"idle", "permission", "position", "calculate", "catch", "done"}

\* C21: getPrayerTimes never rejects: a call that was given no location and
\* got none from the device (permission denied, or the position request
\* threw) resolves with the six-entry mock list, flagged by the rule of the
\* real list (calculatePrayerTimes applied to the mock table and the clock).
C21_MockListOnFailure ==
  /\ pc \in CallPositions
  /\ (Resolved /\ location = <<>>) =>
       /\ Mocked
       /\ Len(prayers) = 6
       /\ [i \in 1..6 |-> prayers[i].id] = PrayerIds
       /\ prayers = calculatePrayerTimes(MockPrayers, now)

\* C21 witness: a call without a location has resolved with the mock list at
\* the minute Dhuhr of the mock table is due: Dhuhr is passed and Asr is next.
C21_Witness ==
  /\ Resolved /\ location = <<>>
  /\ Len(prayers) = 6
  /\ CurrentMinutes(now) = 12 * 60 + 25
  /\ prayers[3].isPassed
  /\ prayers[4].isNext /\ ~prayers[4].isPassed

\* the 'salatiOnboarding' item holds a record marked completed
CompletedStored == salatiOnboarding # <<>> /\ salatiOnboarding[1].completed

\* C22: within one start of the app, appState leaves 'loading' for 'main'
\* only with hasSeenWelcome set and a completed onboarding record stored, for
\* 'onboarding' only with hasSeenWelcome set and no completed record, and for
\* 'welcome' otherwise; 'welcome' only moves to 'onboarding', 'onboarding'
\* only to 'main', nothing leaves 'main' and nothing returns to 'loading'.
C22_StartUpTransitions ==
  [][launches' = launches =>
       /\ (appState = "loading" /\ appState' = "main") =>
            (hasSeenWelcome /\ CompletedStored)
       /\ (appState = "loading" /\ appState' = "onboarding") =>
            (hasSeenWelcome /\ ~CompletedStored)
       /\ appState = "loading" =>
            appState' \in {"loading", "welcome", "onboarding", "main"}
       /\ appState = "welcome" => appState' \in {"welcome", "onboarding"}
       /\ appState = "onboarding" => appState' \in {"onboarding", "main"}
       /\ appState = "main" => appState' = "main"
       /\ appState' = "loading" => appState = "loading"]_vars

\* C22 witness: the app was started again with both items stored and is in
\* 'main', the wizard not having run in this start.
C22_Witness ==
  /\ launches = 1
  /\ appState = "main"
  /\ hasSeenWelcome /\ CompletedStored
  /\ onCompleteCalled

\* C23 (as claimed): currentStep stays within 0 .. 5.
C23_StepInRange == currentStep \in 0..LastStep

\* C24 (as claimed): from step 2 on the name is not blank, from step 3 on a
\* location is set, and the stored onboarding record has a location.
C24_NameAndLocationSet ==
  /\ currentStep >= 2 => Trim(onboardingData.userName) # <<>>
  /\ currentStep >= 3 => onboardingData.location # <<>>
  /\ salatiOnboarding # <<>> => salatiOnboarding[1].location # <<>>

\* C25 (as claimed): with no handleComplete in flight, a stored record marked
\* completed means onComplete() was invoked, and the app is in 'main' only
\* after that.
C25_CompletedOnlyAfterOnComplete ==
  /\ (completePc = "idle" /\ CompletedStored) => onCompleteCalled
  /\ appState = "main" => onCompleteCalled

\* no call of the service is in flight
AllReturned == \A r \in Runs : runs[r].pc = "idle"

\* the registered notifications of one prayer and one type
RegisteredFor(name, type) ==
  {n \in scheduled : n.prayerName = name /\ n.type = type}

\* C26 (as claimed): once every scheduling call has returned, at most one
\* adhan and at most one reminder is registered per prayer.
C26_OnePerPrayer ==
  AllReturned =>
    \A i \in 1..Len(PrayerNames), type \in {"adhan", "reminder"} :
      Cardinality(RegisteredFor(PrayerNames[i], type)) <= 1

\* C27 (as claimed): with notificationsEnabled false and every call of the
\* service returned, no notification is registered.
C27_NoneWhenDisabled ==
  (AllReturned /\ ~settings.notificationsEnabled) => scheduled = {}

\* neither saveSettings nor toggleDarkMode is in flight
ThemeQuiescent == togglePc = "idle" /\ savePc = "idle"

\* C28 (as claimed): with no read-modify-write in flight, the stored
\* 'salatiSettings' record has the isDarkMode of the latest toggle and the
\* settings of the latest save.
C28_StoredReflectsLatest ==
  ThemeQuiescent =>
    /\ salatiSettings # <<>>
    /\ salatiSettings[1].isDarkMode = isDarkMode
    /\ salatiSettings[1].language = screenSettings.language
    /\ salatiSettings[1].showDegrees = screenSettings.showDegrees

\* at most one magnetometer listener is subscribed
AtMostOneListener == Cardinality(listeners) <= 1

\* C29 (as claimed): at most one magnetometer listener is subscribed, and
\* none once the component has unmounted.
C29_OneListenerNoneAfterUnmount ==
  /\ AtMostOneListener
  /\ ~mounted => listeners = {}

====
